---- MODULE Spec2Model ----
(***************************************************************************)
(* ai-agents-for-trading-nodejs.                                           *)
(*                                                                         *)
(* Market-data fetch pipeline: BaseMarketDataProvider,                     *)
(* AlphaVantageProvider, YahooFinanceProvider and their                    *)
(* fetchDailyTimeSeries / fetchMultipleSymbols methods.  One provider is   *)
(* constructed, then one fetchMultipleSymbols batch runs on it.  Every     *)
(* action is the code that runs between two suspension points (await of    *)
(* the timer, of axios.get, of fs.promises.writeFile, of the               *)
(* fetchDailyTimeSeries promise).  Specifications Spec and FairSpec.       *)
(*                                                                         *)
(* The other components have a specification each:                         *)
(*   FormatSpec     the formatting of a validated vendor response          *)
(*   FactorySpec    MarketDataProviderFactory.createProvider               *)
(*   CallsSpec      several fetchMultipleSymbols calls on one instance     *)
(*   SignalSpec     TechnicalAnalysisAgent.generateSignals                 *)
(*   SentimentSpec  NewsSentimentAgent.calculateOverallSentiment           *)
(*   StreamSpec     streamChat of the LLM connectors                       *)
(*   AgentSpec      the initialize / execute / cleanup lifecycle           *)
(*   RegistrySpec   the AgentFactory registry of agent instances           *)
(*   ExecuteSpec    NewsSentimentAgent.execute                             *)
(***************************************************************************)
EXTENDS Integers, Sequences, FiniteSets, TLC

\* ------------------------------------------------------------------ bounds
MaxSymbols == 3

\* --------------------------------------------------------------- constants
Symbols == {"A", "B"}

\* phrases whose presence in a text the code tests with String.includes
CF  == "call frequency"
TY  == "Thank you for using Alpha Vantage"
TYX == "Thank you for using Alpha Vantage!"

Undefined   == "undefined"
Placeholder == "your_alphavantage_api_key"

\* a JSON text field: has = the field is present and non-empty (truthy),
\* inc = the phrases it includes
Absent     == [has |-> FALSE, inc |-> {}]
Text(ph)   == [has |-> TRUE, inc |-> ph]
includes(text, phrase) == phrase \in text.inc

\* ---------------------------------------------------------------- helpers
RECURSIVE SeqsUpTo(_, _)
SeqsUpTo(S, n) ==
    IF n = 0 THEN {<<>>}
    ELSE LET shorter == SeqsUpTo(S, n - 1)
         IN  shorter \cup {Append(s, x) : s \in {t \in shorter : Len(t) = n - 1}, x \in S}

\* Array.prototype.indexOf: zero-based index of the first occurrence
indexOf(arr, v) ==
    IF \E k \in 1..Len(arr) : arr[k] = v
    THEN (CHOOSE k \in 1..Len(arr) : arr[k] = v /\ \A j \in 1..(k - 1) : arr[j] # v) - 1
    ELSE -1

\* one step of the stable sort with comparator (a, b) => time(b) - time(a)
InsertDesc(sorted, x) ==
    LET p == Cardinality({k \in 1..Len(sorted) : sorted[k].time >= x.time})
    IN  SubSeq(sorted, 1, p) \o <<x>> \o SubSeq(sorted, p + 1, Len(sorted))

RECURSIVE SortNewestFirst(_)
SortNewestFirst(s) ==
    IF s = <<>> THEN <<>>
    ELSE InsertDesc(SortNewestFirst(SubSeq(s, 1, Len(s) - 1)), s[Len(s)])

\* ------------------------------------------------------- vendor responses
\* What axios.get settles with for Alpha Vantage.  transport = the promise
\* rejects (network / HTTP failure); otherwise response.data carries the
\* optional fields 'Error Message', 'Note', 'Information' and
\* 'Time Series (Daily)' (entries = the date keys in insertion order).
NoSeries == [has |-> FALSE, entries |-> <<>>]
AVSeries == {NoSeries, [has |-> TRUE, entries |-> <<1, 2>>]}
AVTransportError ==
    [transport |-> TRUE, err |-> Absent, note |-> Absent, info |-> Absent,
     series |-> NoSeries]
AVResponses ==
    {AVTransportError} \cup
    [transport : {FALSE},
     err       : {Absent, Text({}), Text({CF})},
     note      : {Absent, Text({}), Text({CF}), Text({TY, TYX})},
     info      : {Absent, Text({CF})},
     series    : AVSeries]

\* What axios.get settles with for Yahoo Finance.  result = chart.result is
\* "absent", "empty" ([]) or "present"; indicators = result[0].indicators.quote
\* exists; fields = timestamp, quote[0] and its five arrays all exist;
\* rows = the aligned arrays, t = epoch seconds, nul = some OHLCV is null.
YahooRows == {<<[t |-> 86400, nul |-> FALSE], [t |-> 172800, nul |-> FALSE],
                [t |-> 259200, nul |-> TRUE]>>}
YahooTransportError ==
    [transport |-> TRUE, result |-> "absent", indicators |-> FALSE,
     fields |-> FALSE, rows |-> <<>>]
YahooResponses ==
    {YahooTransportError,
     [transport |-> FALSE, result |-> "absent", indicators |-> FALSE,
      fields |-> FALSE, rows |-> <<>>],
     [transport |-> FALSE, result |-> "empty", indicators |-> FALSE,
      fields |-> FALSE, rows |-> <<>>],
     [transport |-> FALSE, result |-> "present", indicators |-> FALSE,
      fields |-> FALSE, rows |-> <<>>],
     [transport |-> FALSE, result |-> "present", indicators |-> TRUE,
      fields |-> FALSE, rows |-> <<>>]} \cup
    [transport : {FALSE}, result : {"present"}, indicators : {TRUE},
     fields : {TRUE}, rows : YahooRows]

\* a thrown Error: kind names the throw site, inc the phrases of its message
Err(kind, inc) == [kind |-> kind, inc |-> inc]
NoErr == Err("none", {})

\* ------------------------------------------------------------------- state
VARIABLES
    mkdirCalls,     \* fs: number of fs.mkdirSync calls made
    ctor,           \* how the constructor call ended: "none" (not called),
                    \* "ok", "no_storage_dir", "mkdir_failed" (the two throws)
    provider,       \* the provider instance (kind "none": no instance)
    pc,             \* position of the fetchMultipleSymbols call
    symbols,        \* its argument
    idx,            \* list position of the for..of loop (1-based)
    result,         \* const result: symbol -> points
    errors,         \* const errors: symbol -> errorMessage (its phrases)
    isRateLimited,  \* let isRateLimited
    timer,          \* pending setTimeout delay in ms, 0 = none
    requests,       \* number of axios.get calls issued
    log             \* one frame per fetch started, in the order started

\* the variables of the provider under construction and of its batch
batchVars == <<mkdirCalls, ctor, provider, pc, symbols, idx,
               result, errors, isRateLimited, timer, requests, log>>

\* The other components of the repository.  Each has its own specification
\* below; in the specification of one component the others stay as
\* constructed.
VARIABLES
    response,           \* fetchDailyTimeSeries: the validated response.data
    formattedData,      \* fetchDailyTimeSeries: what it returns
    instances,          \* MarketDataProviderFactory: the providers created so
                        \* far, in creation order (the heap of instances)
    created,            \* how the latest createProvider call ended
    calls,              \* the fetchMultipleSymbols calls made on one
                        \* Alpha Vantage instance: one stack frame per call
    indicators,         \* generateSignals: its argument
    signals,            \* generateSignals: the object it returns
    articleSentiments,  \* calculateOverallSentiment: its argument
    overallSentiment,   \* calculateOverallSentiment: the object it returns
    stream,             \* streamChat: the HTTP stream of the call
    emitted,            \* streamChat: the events the connector has emitted
    agent,              \* BaseAgent: the fields of one agent instance
    executions,         \* the agent's lifecycle calls so far and how each ended
    agentRegistry,      \* AgentFactory: agentType -> agent class
    agentInstances,     \* AgentFactory: id -> agent (a reference)
    agentObjects,       \* the agents the factory has constructed, in order
    factoryCall,        \* the latest AgentFactory call and what it returned
    analysis            \* NewsSentimentAgent.execute: the frame of one call

formatVars    == <<response, formattedData>>
factoryVars   == <<instances, created>>
callVars      == <<calls>>
signalVars    == <<indicators, signals>>
sentimentVars == <<articleSentiments, overallSentiment>>
streamVars    == <<stream, emitted>>
agentVars     == <<agent, executions>>
registryVars  == <<agentRegistry, agentInstances, agentObjects, factoryCall>>
executeVars   == <<analysis>>

\* everything but the provider and its batch
auxVars == <<formatVars, factoryVars, callVars, signalVars, sentimentVars,
             streamVars, agentVars, registryVars, executeVars>>

vars == <<batchVars, auxVars>>

\* the other components before any of their operations has been called
NoResponse    == [provider |-> "none"]
NotFormatted  == [returned |-> FALSE, points |-> <<>>]
NotCreated    == [type |-> "none", outcome |-> "none", id |-> 0, call |-> 0]
NoIndicators  == [given |-> FALSE]
NoSignals     == [returned |-> FALSE]
NoSentiment   == [returned |-> FALSE]
NoStream      == [connector |-> "none", state |-> "none", chunks |-> 0,
                  markerSent |-> FALSE]
NoAgent       == [kind |-> "none", isInitialized |-> FALSE, config |-> {}]
NoCall        == [op |-> "none", threw |-> FALSE, agent |-> 0, removed |-> FALSE]
NotArray      == [isArray |-> FALSE, items |-> <<>>]
NoAnalysis    == [pc |-> "idle", articles |-> NotArray, sources |-> NotArray,
                  i |-> 1, j |-> 1, k |-> 1, fetched |-> <<>>, responses |-> <<>>,
                  articleSentiments |-> <<>>, overallSentiment |-> NoSentiment]

FormatIdle    == response = NoResponse /\ formattedData = NotFormatted
FactoryIdle   == instances = <<>> /\ created = NotCreated
CallsIdle     == calls = <<>>
SignalIdle    == indicators = NoIndicators /\ signals = NoSignals
SentimentIdle == articleSentiments = <<>> /\ overallSentiment = NoSentiment
StreamIdle    == stream = NoStream /\ emitted = <<>>
AgentIdle     == agent = NoAgent /\ executions = <<>>
RegistryIdle  == /\ agentRegistry = [t \in {} |-> ""]
                 /\ agentInstances = [id \in {} |-> 0]
                 /\ agentObjects = <<>>
                 /\ factoryCall = NoCall
ExecuteIdle   == analysis = NoAnalysis

NoProvider == [kind |-> "none", store |-> FALSE, storageDir |-> "null", apiKey |-> ""]
EmptyMap   == [s \in {} |-> <<>>]

\* no provider has been constructed
BatchIdle ==
    /\ mkdirCalls = 0
    /\ ctor = "none"
    /\ provider = NoProvider
    /\ pc = "new"
    /\ symbols = <<>>
    /\ idx = 1
    /\ result = EmptyMap
    /\ errors = EmptyMap
    /\ isRateLimited = FALSE
    /\ timer = 0
    /\ requests = 0
    /\ log = <<>>

Init ==
    /\ BatchIdle
    /\ FormatIdle /\ FactoryIdle /\ CallsIdle /\ SignalIdle
    /\ SentimentIdle /\ StreamIdle /\ AgentIdle
    /\ RegistryIdle /\ ExecuteIdle

\* ------------------------------------------------------------ construction
\* JS truthiness of an option value
Truthy(v) == v \notin {Undefined, "", "false", "null"}

\* a || b
OrElse(a, b) == IF Truthy(a) THEN a ELSE b

\* a constructor without the storageDir check
storageDirMissing_skipped(store, storageDir) == FALSE

\* BaseMarketDataProvider constructor: the storageDir check.  TRUE = throws.
storageDirMissing(store, storageDir) == store /\ ~Truthy(storageDir)

\* new AlphaVantageProvider(options) / new YahooFinanceProvider(options),
\* directly or through MarketDataProviderFactory.createProvider.
\* exists = what fs.existsSync(storageDir) returns, mkdirOk = fs.mkdirSync
\* succeeds (when they are called).
Construct(kind, optStore, optDir, optKey, envKey, exists, mkdirOk) ==
    LET store      == Truthy(optStore)
        storageDir == OrElse(optDir, "null")
        apiKey     == IF kind = "alphavantage" THEN OrElse(optKey, OrElse(envKey, ""))
                      ELSE ""
        missing    == storageDirMissing(store, storageDir)
        mkdir      == ~missing /\ store /\ Truthy(storageDir) /\ ~exists
        outcome    == IF missing THEN "no_storage_dir"
                      ELSE IF mkdir /\ ~mkdirOk THEN "mkdir_failed"
                      ELSE "ok"
    IN  /\ pc = "new"
        /\ ctor' = outcome
        /\ mkdirCalls' = IF mkdir THEN mkdirCalls + 1 ELSE mkdirCalls
        /\ provider' = IF outcome = "ok"
                       THEN [kind |-> kind, store |-> store,
                             storageDir |-> storageDir, apiKey |-> apiKey]
                       ELSE NoProvider
        /\ pc' = IF outcome = "ok" THEN "ready" ELSE "ctor_threw"
        /\ UNCHANGED <<symbols, idx, result, errors, isRateLimited,
                       timer, requests, log>>
        /\ UNCHANGED auxVars

\* ---------------------------------------------------- provider operations
\* hasValidCredentials without the placeholder test
hasValidCredentials_placeholder(apiKey) == apiKey # ""

\* AlphaVantageProvider.hasValidCredentials
hasValidCredentials(apiKey) == apiKey # "" /\ apiKey # Placeholder

\* YahooFinanceProvider.hasValidCredentials
yahooHasValidCredentials == TRUE

\* AlphaVantageProvider.isRateLimited(responseData)
isRateLimitedData(data) ==
    \/ data.note.has /\ (includes(data.note, CF) \/ includes(data.note, TYX))
    \/ data.info.has /\ includes(data.info, CF)

\* AlphaVantageProvider.getRecommendedDelay(isLimited)
getRecommendedDelay(isLimited) == IF isLimited THEN 60000 ELSE 1500

\* YahooFinanceProvider.fetchMultipleSymbols: the fixed setTimeout delay
YahooDelay == 500

\* the loop's test `symbols.indexOf(symbol) > 0`
needsDelay(syms, symbol) == indexOf(syms, symbol) > 0

\* the batch's catch block: does errorMessage set isRateLimited
catchSetsRateLimit(error) == includes(error, CF) \/ includes(error, TY)

\* `result[symbol] = data`
storeResult(res, symbol, data) == (symbol :> data) @@ res

\* `errors[symbol] = errorMessage` (without the entry)
storeError_dropped(errs, symbol, errorMessage) == errs

\* `errors[symbol] = errorMessage`
storeError(errs, symbol, errorMessage) == (symbol :> errorMessage) @@ errs

\* fetchDailyTimeSeries(...) called without `await`
fetchAwaited_not == FALSE

\* the `await` in `const data = await this.fetchDailyTimeSeries(...)`:
\* the loop does not advance before the fetch has settled
fetchAwaited == TRUE

\* a catch block that rethrows
afterCatch_rethrow == "thrown"

\* the batch's catch block ends without rethrowing: the loop goes on
afterCatch == "loop"

\* storeResponseToFile without its try/catch
storeResponseToFile_uncaught(writeOk) == IF writeOk THEN "resolved" ELSE "rejected"

\* BaseMarketDataProvider.storeResponseToFile: how its promise settles
\* given whether fs.promises.writeFile succeeded
storeResponseToFile(writeOk) == "resolved"

\* an archive test that looks at storageDir only
archives_dirOnly(p) == Truthy(p.storageDir)

\* fetchDailyTimeSeries: `if (this.store && this.storageDir)`
archives(p) == p.store /\ Truthy(p.storageDir)

\* a validation that looks for 'Time Series (Daily)' before 'Error Message'
alphaValidate_seriesFirst(resp) ==
    IF resp.transport THEN Err("transport", {})
    ELSE IF resp.series.has THEN NoErr
    ELSE IF resp.err.has THEN Err("vendor", resp.err.inc)
    ELSE Err("format", {})

\* AlphaVantageProvider.fetchDailyTimeSeries: the throws between the
\* response and the archive write (NoErr = none)
alphaValidate(resp) ==
    IF resp.transport THEN Err("transport", {})
    ELSE IF resp.err.has THEN Err("vendor", resp.err.inc)
    ELSE IF ~resp.series.has THEN Err("format", {})
    ELSE NoErr

\* AlphaVantageProvider.fetchDailyTimeSeries: Object.entries(...).map(...).sort(...)
alphaFormat(entries) ==
    SortNewestFirst([k \in 1..Len(entries) |-> [time |-> entries[k]]])

\* YahooFinanceProvider.fetchDailyTimeSeries: the throws before the archive write
yahooValidate(resp) ==
    IF resp.transport THEN Err("transport", {})
    ELSE IF resp.result # "present" THEN Err("format", {})
    ELSE NoErr

\* YahooFinanceProvider.fetchDailyTimeSeries: the throws after the archive
\* write ("type": result.indicators.quote[0] was read off undefined)
yahooValidateFields(chart) ==
    IF ~chart.indicators THEN Err("type", {})
    ELSE IF ~chart.fields THEN Err("format", {})
    ELSE NoErr

SecondsPerDay == 86400

\* YahooFinanceProvider.fetchDailyTimeSeries: the formatting loop and sort
yahooFormat(rows) ==
    LET kept == SelectSeq(rows, LAMBDA r : ~r.nul)
    IN  SortNewestFirst([k \in 1..Len(kept) |-> [time |-> kept[k].t \div SecondsPerDay]])

\* ------------------------------------------------------------- fetch frames
NoChart == [indicators |-> FALSE, fields |-> FALSE, rows |-> <<>>]

\* the frame of one fetchDailyTimeSeries call made by the batch
\*   status    "http" (axios.get pending), "store" (writeFile pending),
\*             "ok" (resolved with points), "failed" (rejected with err)
\*   delays    the delays the batch awaited before making the call
\*   requested axios.get was called
\*   write     "none", "ok" (a file was written), "failed" (writeFile threw)
\*   series, chart   the payload of the response (kept for the formatting)
\*   note      the response had a Note including "call frequency"
\*   wording   the response had rate-limit wording: isRateLimited(data)
\*             holds or its Error Message includes one of the phrases
NewFrame(symbol, delays) ==
    [symbol |-> symbol, delays |-> delays, status |-> "http",
     requested |-> FALSE, write |-> "none", err |-> NoErr, points |-> <<>>,
     series |-> <<>>, chart |-> NoChart,
     note |-> FALSE, wording |-> FALSE]

\* of a fetch the batch has moved on from, the log keeps the symbol, the
\* delays and the outcome; the detail is kept for the latest fetch and for
\* fetches still running
Past(f) ==
    IF f.status \in {"ok", "failed"}
    THEN [f EXCEPT !.err = NoErr, !.points = <<>>, !.series = <<>>,
                   !.chart = NoChart, !.note = FALSE, !.wording = FALSE,
                   !.write = "none"]
    ELSE f

Settled(f) == f.status \in {"ok", "failed"}

InFlight == {i \in 1..Len(log) : log[i].status = "http"}
Writing  == {i \in 1..Len(log) : log[i].status = "store"}

\* the synchronous head of fetchDailyTimeSeries, up to its first await
BeginFetch(i, delays) ==
    LET f == NewFrame(symbols[i], delays)
        valid == IF provider.kind = "alphavantage"
                 THEN hasValidCredentials(provider.apiKey)
                 ELSE yahooHasValidCredentials
        past  == [k \in 1..Len(log) |-> Past(log[k])]
    IN  /\ IF valid
           THEN /\ log' = Append(past, [f EXCEPT !.requested = TRUE])
                /\ requests' = requests + 1
           ELSE /\ log' = Append(past, [f EXCEPT !.status = "failed",
                                                 !.err = Err("credential", {})])
                /\ requests' = requests
        /\ pc'  = IF fetchAwaited THEN "await" ELSE "loop"
        /\ idx' = IF fetchAwaited THEN idx ELSE idx + 1

\* ------------------------------------------------------ fetchMultipleSymbols
StartBatch(syms) ==
    /\ pc = "ready"
    /\ pc' = "loop"
    /\ symbols' = syms
    /\ idx' = 1
    /\ result' = EmptyMap
    /\ errors' = EmptyMap
    /\ isRateLimited' = FALSE
    /\ UNCHANGED <<mkdirCalls, ctor, provider, timer,
                   requests, log>>
    /\ UNCHANGED auxVars

\* loop head for a position that has to wait: start the timer
StartDelay ==
    /\ pc = "loop"
    /\ idx <= Len(symbols)
    /\ needsDelay(symbols, symbols[idx])
    /\ timer' = IF provider.kind = "alphavantage"
                THEN getRecommendedDelay(isRateLimited) ELSE YahooDelay
    /\ pc' = "delay"
    /\ UNCHANGED <<mkdirCalls, ctor, provider, symbols, idx,
                   result, errors, isRateLimited, requests, log>>
    /\ UNCHANGED auxVars

\* loop head for a position that does not wait: call fetchDailyTimeSeries
FetchNow ==
    /\ pc = "loop"
    /\ idx <= Len(symbols)
    /\ ~needsDelay(symbols, symbols[idx])
    /\ BeginFetch(idx, <<>>)
    /\ UNCHANGED <<mkdirCalls, ctor, provider, symbols,
                   result, errors, isRateLimited, timer>>
    /\ UNCHANGED auxVars

\* the timer fires: reset the flag (Alpha Vantage), call fetchDailyTimeSeries
DelayElapsed ==
    /\ pc = "delay"
    /\ timer' = 0
    /\ isRateLimited' = FALSE
    /\ BeginFetch(idx, <<timer>>)
    /\ UNCHANGED <<mkdirCalls, ctor, provider, symbols,
                   result, errors>>
    /\ UNCHANGED auxVars

\* axios.get of frame i settles with resp; fetchDailyTimeSeries runs on to
\* its throw, to the writeFile await, or to its return
AlphaResponds(i, resp) ==
    LET e       == alphaValidate(resp)
        storing == archives(provider)
        seen    == [log[i] EXCEPT
                      !.note    = ~resp.transport /\ includes(resp.note, CF),
                      !.wording = ~resp.transport /\
                                  (isRateLimitedData(resp) \/ catchSetsRateLimit(resp.err))]
    IN  /\ provider.kind = "alphavantage"
        /\ i \in InFlight
        /\ log' = [log EXCEPT ![i] =
                     IF e # NoErr THEN [seen EXCEPT !.status = "failed", !.err = e]
                     ELSE IF storing
                          THEN [seen EXCEPT !.status = "store",
                                            !.series = resp.series.entries]
                          ELSE [seen EXCEPT !.status = "ok",
                                            !.series = resp.series.entries,
                                            !.points = alphaFormat(resp.series.entries)]]
        /\ UNCHANGED <<mkdirCalls, ctor, provider, pc, symbols,
                       idx, result, errors, isRateLimited, timer, requests>>
        /\ UNCHANGED auxVars

YahooResponds(i, resp) ==
    LET e       == yahooValidate(resp)
        storing == archives(provider)
        chart   == [indicators |-> resp.indicators, fields |-> resp.fields,
                    rows |-> resp.rows]
        e2      == yahooValidateFields(chart)
    IN  /\ provider.kind = "yahoo"
        /\ i \in InFlight
        /\ log' = [log EXCEPT ![i] =
                     IF e # NoErr THEN [@ EXCEPT !.status = "failed", !.err = e]
                     ELSE IF storing
                          THEN [@ EXCEPT !.status = "store", !.chart = chart]
                          ELSE IF e2 # NoErr
                               THEN [@ EXCEPT !.status = "failed", !.err = e2,
                                              !.chart = chart]
                               ELSE [@ EXCEPT !.status = "ok", !.chart = chart,
                                              !.points = yahooFormat(resp.rows)]]
        /\ UNCHANGED <<mkdirCalls, ctor, provider, pc, symbols,
                       idx, result, errors, isRateLimited, timer, requests>>
        /\ UNCHANGED auxVars

\* fs.promises.writeFile of frame i settles; storeResponseToFile settles and
\* fetchDailyTimeSeries runs on to its throw or return
WriteCompletes(i, writeOk) ==
    LET f  == [log[i] EXCEPT !.write = IF writeOk THEN "ok" ELSE "failed"]
        e2 == yahooValidateFields(f.chart)
    IN  /\ i \in Writing
        /\ log' = [log EXCEPT ![i] =
                     IF storeResponseToFile(writeOk) = "rejected"
                     THEN [f EXCEPT !.status = "failed", !.err = Err("storage", {})]
                     ELSE IF provider.kind = "alphavantage"
                          THEN [f EXCEPT !.status = "ok", !.points = alphaFormat(f.series)]
                          ELSE IF e2 # NoErr
                               THEN [f EXCEPT !.status = "failed", !.err = e2]
                               ELSE [f EXCEPT !.status = "ok",
                                              !.points = yahooFormat(f.chart.rows)]]
        /\ UNCHANGED <<mkdirCalls, ctor, provider, pc, symbols, idx,
                       result, errors, isRateLimited, timer, requests>>
        /\ UNCHANGED auxVars

\* the awaited fetch resolved: result[symbol] = data
FetchResolved ==
    /\ pc = "await"
    /\ log[idx].status = "ok"
    /\ result' = storeResult(result, symbols[idx], log[idx].points)
    /\ idx' = idx + 1
    /\ pc' = "loop"
    /\ UNCHANGED <<mkdirCalls, ctor, provider, symbols,
                   errors, isRateLimited, timer, requests, log>>
    /\ UNCHANGED auxVars

\* the awaited fetch rejected: the catch block
FetchRejected ==
    /\ pc = "await"
    /\ log[idx].status = "failed"
    /\ errors' = storeError(errors, symbols[idx], log[idx].err.inc)
    /\ isRateLimited' = IF provider.kind = "alphavantage" /\ catchSetsRateLimit(log[idx].err)
                        THEN TRUE ELSE isRateLimited
    /\ idx' = idx + 1
    /\ pc' = afterCatch
    /\ UNCHANGED <<mkdirCalls, ctor, provider, symbols,
                   result, timer, requests, log>>
    /\ UNCHANGED auxVars

\* the loop is over: log the error summary, return result
Return ==
    /\ pc = "loop"
    /\ idx > Len(symbols)
    /\ pc' = "done"
    /\ UNCHANGED <<mkdirCalls, ctor, provider, symbols, idx,
                   result, errors, isRateLimited, timer, requests, log>>
    /\ UNCHANGED auxVars

\* -------------------------------------------------------------------- spec
StoreOptions == {Undefined, "false", "true"}
DirOptions   == {Undefined, "", "data"}
KeyOptions   == {Undefined, "", Placeholder, "KEY"}
EnvKeys      == {Undefined, Placeholder, "KEY"}
SymbolLists  == SeqsUpTo(Symbols, MaxSymbols)

ConstructStep ==
    \E kind \in {"alphavantage", "yahoo"}, s \in StoreOptions, d \in DirOptions,
       k \in KeyOptions, e \in EnvKeys, x \in BOOLEAN, m \in BOOLEAN :
       Construct(kind, s, d, k, e, x, m)

BatchNext ==
    \/ \E syms \in SymbolLists : StartBatch(syms)
    \/ StartDelay
    \/ FetchNow
    \/ DelayElapsed
    \/ \E i \in 1..Len(log), resp \in AVResponses : AlphaResponds(i, resp)
    \/ \E i \in 1..Len(log), resp \in YahooResponses : YahooResponds(i, resp)
    \/ \E i \in 1..Len(log), w \in BOOLEAN : WriteCompletes(i, w)
    \/ FetchResolved
    \/ FetchRejected
    \/ Return

Next == ConstructStep \/ BatchNext

Spec == Init /\ [][Next]_vars

\* providers as the constructor leaves them: Alpha Vantage with a valid key
\* and with the placeholder key, Yahoo; archiving on (the directory was
\* already there) and off
ConstructedProviders ==
    {[kind |-> "alphavantage", store |-> st, storageDir |-> IF st THEN "data" ELSE "null",
      apiKey |-> "KEY"] : st \in BOOLEAN} \cup
    {[kind |-> "alphavantage", store |-> TRUE, storageDir |-> "data", apiKey |-> Placeholder]} \cup
    {[kind |-> "yahoo", store |-> st, storageDir |-> IF st THEN "data" ELSE "null",
      apiKey |-> ""] : st \in BOOLEAN}

\* the state after a successful construction
Constructed ==
    /\ mkdirCalls = 0
    /\ ctor = "ok"
    /\ provider \in ConstructedProviders
    /\ pc = "ready"
    /\ symbols = <<>>
    /\ idx = 1
    /\ result = EmptyMap
    /\ errors = EmptyMap
    /\ isRateLimited = FALSE
    /\ timer = 0
    /\ requests = 0
    /\ log = <<>>
    /\ FormatIdle /\ FactoryIdle /\ CallsIdle /\ SignalIdle
    /\ SentimentIdle /\ StreamIdle /\ AgentIdle
    /\ RegistryIdle /\ ExecuteIdle

\* a batch on a constructed provider in which every vendor request, archive
\* write and timer eventually completes and the event loop keeps running
\* the batch's continuations
FairSpec == Constructed /\ [][BatchNext]_vars /\ WF_vars(BatchNext)

\* ====================================================== response formatting
\* The tail of fetchDailyTimeSeries: the validated response.data is turned
\* into the points the method returns.

\* bound: entries of a 'Time Series (Daily)' object / length of timestamp
MaxPoints == 3

\* a JS number with a finite decimal expansion, m / 10^e with e minimal
RECURSIVE Num(_, _)
Num(m, e) ==
    IF e > 0 /\ m % 10 = 0 THEN Num(m \div 10, e - 1) ELSE [m |-> m, e |-> e]

NaN  == [m |-> 0, e |-> -1]
Null == [m |-> 0, e |-> -2]

\* strings of the vendor's numeric fields: sequences of characters
Digits     == <<"0", "1", "2", "3", "4", "5", "6", "7", "8", "9">>
isDigit(c) == \E d \in 0..9 : Digits[d + 1] = c
digitOf(c) == CHOOSE d \in 0..9 : Digits[d + 1] = c

\* the longest prefix of s made of digits
RECURSIVE leadingDigits(_)
leadingDigits(s) ==
    IF s = <<>> \/ ~isDigit(Head(s)) THEN <<>>
    ELSE <<Head(s)>> \o leadingDigits(Tail(s))

RECURSIVE digitsValue(_)
digitsValue(ds) ==
    IF ds = <<>> THEN 0
    ELSE digitsValue(SubSeq(ds, 1, Len(ds) - 1)) * 10 + digitOf(ds[Len(ds)])

\* parseInt(s, 10) on an unsigned string: the leading digits, NaN if none
parseInt(s) ==
    LET ds == leadingDigits(s)
    IN  IF ds = <<>> THEN NaN ELSE Num(digitsValue(ds), 0)

\* a parseFloat that stops at the decimal point
parseFloat_truncating(s) == parseInt(s)

\* parseFloat(s) on an unsigned string without exponent: the leading digits,
\* and the digits after a "." that follows them
parseFloat(s) ==
    LET ip   == leadingDigits(s)
        rest == SubSeq(s, Len(ip) + 1, Len(s))
        fp   == IF rest # <<>> /\ Head(rest) = "." THEN leadingDigits(Tail(rest))
                ELSE <<>>
    IN  IF ip = <<>> /\ fp = <<>> THEN NaN
        ELSE Num(digitsValue(ip \o fp), Len(fp))

\* the decimal numeral of a natural number
RECURSIVE decimal(_)
decimal(n) ==
    IF n < 10 THEN <<Digits[n + 1]>>
    ELSE Append(decimal(n \div 10), Digits[(n % 10) + 1])

\* Alpha Vantage writes a price with four decimals ("1.5000") and a volume
\* as an integer; p = the price in units of 1/10000
avPrice(p) ==
    decimal(p \div 10000) \o <<".">> \o
    <<Digits[((p \div 1000) % 10) + 1], Digits[((p \div 100) % 10) + 1],
      Digits[((p \div 10) % 10) + 1], Digits[(p % 10) + 1]>>
avVolume(v) == decimal(v)

\* one entry of 'Time Series (Daily)': the date key (a calendar day, counted
\* in days since the epoch) and the five vendor-prefixed string fields
avEntry(date, q) ==
    [date |-> date,
     values |-> [open |-> avPrice(q.open), high |-> avPrice(q.high),
                 low |-> avPrice(q.low), close |-> avPrice(q.close),
                 volume |-> avVolume(q.volume)]]

\* the quotes of a day (prices in 1/10000)
AVQuotes ==
    {[open |-> 15000, high |-> 123456, low |-> 2500, close |-> 20000, volume |-> 1050],
     [open |-> 100000, high |-> 100000, low |-> 100000, close |-> 100000, volume |-> 0]}

Days == 1..MaxPoints

NoDuplicates(s) == \A i, j \in 1..Len(s) : i # j => s[i] # s[j]

\* 'Time Series (Daily)' objects: the keys of an object are distinct, and
\* Object.entries lists them in insertion order
AVTimeSeries ==
    UNION {{[k \in 1..Len(ds) |-> avEntry(ds[k], qs[k])] :
               qs \in {q \in SeqsUpTo(AVQuotes, MaxPoints) : Len(q) = Len(ds)}} :
           ds \in {d \in SeqsUpTo(Days, MaxPoints) : NoDuplicates(d)}}

\* the callback of Object.entries(timeSeriesData).map
alphaPoint(entry) ==
    [time |-> entry.date,
     open |-> parseFloat(entry.values.open), high |-> parseFloat(entry.values.high),
     low |-> parseFloat(entry.values.low), close |-> parseFloat(entry.values.close),
     volume |-> parseInt(entry.values.volume)]

\* AlphaVantageProvider.fetchDailyTimeSeries: map, then sort newest first
alphaFormatData(timeSeriesData) ==
    SortNewestFirst([k \in 1..Len(timeSeriesData) |-> alphaPoint(timeSeriesData[k])])

\* Yahoo: chart.result[0].timestamp (epoch seconds) and the five arrays of
\* indicators.quote[0], aligned with it; every value is a number or null
YahooTimestamps == {86400, 90000, 172800}

YahooQuoteRows ==
    {[open |-> Num(5, 0), high |-> Num(7, 0), low |-> Num(45, 1), close |-> Num(6, 0),
      volume |-> Num(900, 0)],
     [open |-> Num(5, 0), high |-> Num(7, 0), low |-> Num(45, 1), close |-> Num(6, 0),
      volume |-> Num(0, 0)],
     [open |-> Null, high |-> Num(7, 0), low |-> Num(45, 1), close |-> Num(6, 0),
      volume |-> Num(900, 0)],
     [open |-> Num(5, 0), high |-> Num(7, 0), low |-> Num(45, 1), close |-> Null,
      volume |-> Num(900, 0)],
     [open |-> Null, high |-> Null, low |-> Null, close |-> Null, volume |-> Null]}

YahooCharts ==
    {[timestamp |-> [k \in 1..Len(r) |-> r[k].t],
      quote |-> [open   |-> [k \in 1..Len(r) |-> r[k].q.open],
                 high   |-> [k \in 1..Len(r) |-> r[k].q.high],
                 low    |-> [k \in 1..Len(r) |-> r[k].q.low],
                 close  |-> [k \in 1..Len(r) |-> r[k].q.close],
                 volume |-> [k \in 1..Len(r) |-> r[k].q.volume]]] :
       r \in SeqsUpTo([t : YahooTimestamps, q : YahooQuoteRows], MaxPoints)}

\* a test that takes every falsy value for null
isNull_falsy(v) == v = Null \/ v = Num(0, 0)

\* `v === null`
isNull(v) == v = Null

\* the loop's `continue` test at index i (1-based)
yahooSkips(quote, i) ==
    \/ isNull(quote.open[i]) \/ isNull(quote.high[i]) \/ isNull(quote.low[i])
    \/ isNull(quote.close[i]) \/ isNull(quote.volume[i])

\* new Date(t * 1000).toISOString().split('T')[0]: the UTC calendar day
utcDate(t) == t \div SecondsPerDay

\* the object pushed for index i
yahooPoint(timestamps, quote, i) ==
    [time |-> utcDate(timestamps[i]),
     open |-> quote.open[i], high |-> quote.high[i], low |-> quote.low[i],
     close |-> quote.close[i], volume |-> quote.volume[i]]

\* formattedData after the first n iterations of the loop
RECURSIVE yahooCollect(_, _, _)
yahooCollect(timestamps, quote, n) ==
    IF n = 0 THEN <<>>
    ELSE LET before == yahooCollect(timestamps, quote, n - 1)
         IN  IF yahooSkips(quote, n) THEN before
             ELSE Append(before, yahooPoint(timestamps, quote, n))

\* YahooFinanceProvider.fetchDailyTimeSeries: the loop, then sort newest first
yahooFormatData(timestamps, quote) ==
    SortNewestFirst(yahooCollect(timestamps, quote, Len(timestamps)))

\* the responses that passed the validation of fetchDailyTimeSeries
ValidResponses ==
    {[provider |-> "alphavantage", series |-> ts] : ts \in AVTimeSeries} \cup
    {[provider |-> "yahoo", chart |-> c] : c \in YahooCharts}

FormatAlpha ==
    /\ response.provider = "alphavantage"
    /\ ~formattedData.returned
    /\ formattedData' = [returned |-> TRUE, points |-> alphaFormatData(response.series)]
    /\ UNCHANGED <<response, batchVars, factoryVars, callVars, signalVars,
                   sentimentVars, streamVars, agentVars,
                   registryVars, executeVars>>

FormatYahoo ==
    /\ response.provider = "yahoo"
    /\ ~formattedData.returned
    /\ formattedData' = [returned |-> TRUE,
                         points |-> yahooFormatData(response.chart.timestamp,
                                                    response.chart.quote)]
    /\ UNCHANGED <<response, batchVars, factoryVars, callVars, signalVars,
                   sentimentVars, streamVars, agentVars,
                   registryVars, executeVars>>

FormatInit ==
    /\ response \in ValidResponses
    /\ formattedData = NotFormatted
    /\ BatchIdle /\ FactoryIdle /\ CallsIdle /\ SignalIdle
    /\ SentimentIdle /\ StreamIdle /\ AgentIdle
    /\ RegistryIdle /\ ExecuteIdle

FormatNext == FormatAlpha \/ FormatYahoo

FormatSpec == FormatInit /\ [][FormatNext]_vars

\* ================================================ MarketDataProviderFactory
\* bound: createProvider calls
MaxCreates == 2

\* the tags createProvider is called with (the type is not checked at run time)
ProviderTags == {"alphavantage", "yahoo", "Yahoo", "polygon", ""}

\* the options object and the environment of a constructor call
ProviderOptions ==
    [store : StoreOptions, storageDir : DirOptions, apiKey : KeyOptions,
     env : EnvKeys, exists : BOOLEAN, mkdirOk : BOOLEAN]

\* `new AlphaVantageProvider(options)` / `new YahooFinanceProvider(options)`:
\* how the constructor ends, whether it called fs.mkdirSync, and the fields
\* of the new object
newProvider(kind, o) ==
    LET store      == Truthy(o.store)
        storageDir == OrElse(o.storageDir, "null")
        missing    == storageDirMissing(store, storageDir)
        mkdir      == ~missing /\ store /\ Truthy(storageDir) /\ ~o.exists
    IN  [outcome |-> IF missing THEN "no_storage_dir"
                     ELSE IF mkdir /\ ~o.mkdirOk THEN "mkdir_failed"
                     ELSE "returned",
         mkdir   |-> mkdir,
         fields  |-> [kind |-> kind, store |-> store, storageDir |-> storageDir,
                      apiKey |-> IF kind = "alphavantage"
                                 THEN OrElse(o.apiKey, OrElse(o.env, ""))
                                 ELSE ""]]

\* the switch of createProvider
createProvider(type, o) ==
    IF type = "alphavantage" THEN newProvider("alphavantage", o)
    ELSE IF type = "yahoo" THEN newProvider("yahoo", o)
    ELSE [outcome |-> "unknown_provider", mkdir |-> FALSE, fields |-> NoProvider]

\* a factory that keeps one provider per type and hands it out again
allocate_cached(heap, type) ==
    IF \E i \in DOMAIN heap : heap[i].kind = type
    THEN CHOOSE i \in DOMAIN heap : heap[i].kind = type
    ELSE Len(heap) + 1

\* `new`: the object is allocated at a place of the heap not in use
allocate(heap, type) == Len(heap) + 1

\* MarketDataProviderFactory.createProvider(type, options)
CreateProvider(type, o) ==
    LET r  == createProvider(type, o)
        id == allocate(instances, type)
    IN  /\ created.call < MaxCreates
        /\ mkdirCalls' = IF r.mkdir THEN mkdirCalls + 1 ELSE mkdirCalls
        /\ IF r.outcome = "returned"
           THEN /\ instances' = [i \in DOMAIN instances \cup {id} |->
                                    IF i = id THEN r.fields ELSE instances[i]]
                /\ created' = [type |-> type, outcome |-> r.outcome, id |-> id,
                               call |-> created.call + 1]
           ELSE /\ instances' = instances
                /\ created' = [type |-> type, outcome |-> r.outcome, id |-> 0,
                               call |-> created.call + 1]
        /\ UNCHANGED <<ctor, provider, pc, symbols, idx, result, errors,
                       isRateLimited, timer, requests, log>>
        /\ UNCHANGED <<formatVars, callVars, signalVars, sentimentVars,
                       streamVars, agentVars,
                   registryVars, executeVars>>

FactoryNext == \E type \in ProviderTags, o \in ProviderOptions : CreateProvider(type, o)

FactorySpec == Init /\ [][FactoryNext]_vars

\* ====================== fetchMultipleSymbols calls on one provider instance
\* Several fetchMultipleSymbols calls on the same Alpha Vantage instance; a
\* call may start while another is suspended at one of its awaits.  Each
\* call has its own stack frame with the locals of the method.

\* the two calls: the one that sees a rate-limit signal and the other one
CallIds == {1, 2}

\* bound: the length of the symbol list of a call
MaxCallSymbols == 2

CallLists == SeqsUpTo(Symbols, MaxCallSymbols)

\* how the awaited fetchDailyTimeSeries ends: resolved, or rejected with an
\* error message without / with rate-limit wording
FetchOutcomes == {[ok |-> TRUE, error |-> Absent],
                  [ok |-> FALSE, error |-> Text({})],
                  [ok |-> FALSE, error |-> Text({CF})]}

\* the frame of a call: its locals, its position, its pending timer;
\* own = the call itself has caught a rate-limit error since it last waited
NewCall(syms) ==
    [pc |-> "loop", symbols |-> syms, idx |-> 1, isRateLimited |-> FALSE,
     timer |-> 0, own |-> FALSE]

\* the flag kept in a field of the provider instance
flagFrame_instance(c) == 1

\* `let isRateLimited` is a local of the call: the frame that holds the
\* flag call c reads and writes is its own
flagFrame(c) == c

readFlag(c) == calls[flagFrame(c)].isRateLimited

writeFlag(frames, c, v) == [frames EXCEPT ![flagFrame(c)].isRateLimited = v]

\* provider.fetchMultipleSymbols(syms) is called
CallStart(syms) ==
    /\ Len(calls) < Cardinality(CallIds)
    /\ calls' = writeFlag(Append(calls, NewCall(syms)), Len(calls) + 1, FALSE)
    /\ UNCHANGED <<batchVars, formatVars, factoryVars, signalVars,
                   sentimentVars, streamVars, agentVars,
                   registryVars, executeVars>>

\* loop head of call c, the symbol has to wait: start the timer
CallStartDelay(c) ==
    /\ calls[c].pc = "loop"
    /\ calls[c].idx <= Len(calls[c].symbols)
    /\ needsDelay(calls[c].symbols, calls[c].symbols[calls[c].idx])
    /\ calls' = [calls EXCEPT ![c].pc = "delay",
                              ![c].timer = getRecommendedDelay(readFlag(c))]
    /\ UNCHANGED <<batchVars, formatVars, factoryVars, signalVars,
                   sentimentVars, streamVars, agentVars,
                   registryVars, executeVars>>

\* the timer of call c fires: reset the flag, call fetchDailyTimeSeries
CallDelayElapsed(c) ==
    /\ calls[c].pc = "delay"
    /\ calls' = writeFlag([calls EXCEPT ![c].pc = "await", ![c].timer = 0,
                                        ![c].own = FALSE], c, FALSE)
    /\ UNCHANGED <<batchVars, formatVars, factoryVars, signalVars,
                   sentimentVars, streamVars, agentVars,
                   registryVars, executeVars>>

\* loop head of call c, no wait: call fetchDailyTimeSeries
CallFetchNow(c) ==
    /\ calls[c].pc = "loop"
    /\ calls[c].idx <= Len(calls[c].symbols)
    /\ ~needsDelay(calls[c].symbols, calls[c].symbols[calls[c].idx])
    /\ calls' = [calls EXCEPT ![c].pc = "await"]
    /\ UNCHANGED <<batchVars, formatVars, factoryVars, signalVars,
                   sentimentVars, streamVars, agentVars,
                   registryVars, executeVars>>

\* the fetch awaited by call c settles: result[symbol] = data, or the catch
CallFetchSettles(c, o) ==
    LET signal == ~o.ok /\ catchSetsRateLimit(o.error)
        moved  == [calls EXCEPT ![c].pc = "loop", ![c].idx = @ + 1,
                                ![c].own = IF signal THEN TRUE ELSE @]
    IN  /\ calls[c].pc = "await"
        /\ calls' = IF signal THEN writeFlag(moved, c, TRUE) ELSE moved
        /\ UNCHANGED <<batchVars, formatVars, factoryVars, signalVars,
                       sentimentVars, streamVars, agentVars,
                   registryVars, executeVars>>

\* the loop of call c is over: return result
CallReturn(c) ==
    /\ calls[c].pc = "loop"
    /\ calls[c].idx > Len(calls[c].symbols)
    /\ calls' = [calls EXCEPT ![c].pc = "done"]
    /\ UNCHANGED <<batchVars, formatVars, factoryVars, signalVars,
                   sentimentVars, streamVars, agentVars,
                   registryVars, executeVars>>

CallsNext ==
    \/ \E syms \in CallLists : CallStart(syms)
    \/ \E c \in 1..Len(calls) : CallStartDelay(c)
    \/ \E c \in 1..Len(calls) : CallDelayElapsed(c)
    \/ \E c \in 1..Len(calls) : CallFetchNow(c)
    \/ \E c \in 1..Len(calls), o \in FetchOutcomes : CallFetchSettles(c, o)
    \/ \E c \in 1..Len(calls) : CallReturn(c)

CallsSpec == Init /\ [][CallsNext]_vars

\* ================================== TechnicalAnalysisAgent.generateSignals
\* a value of an indicator: a number, or undefined
Undef    == [def |-> FALSE, v |-> 0]
Val(n)   == [def |-> TRUE, v |-> n]

\* JS `a < b` and `a > b`: false when an operand is undefined (NaN)
lt(a, b) == a.def /\ b.def /\ a.v < b.v
gt(a, b) == a.def /\ b.def /\ a.v > b.v

\* bound: the MACD values range over -MaxMACD..MaxMACD
MaxMACD == 1

RSIValues  == {0, 25, 29, 30, 31, 50, 69, 70, 71, 100}
MACDValues == (-MaxMACD)..MaxMACD

\* indicators.rsi: absent (not requested), or the object calculateRSI
\* returns, whose latest is undefined when the series is too short
RSIInputs ==
    {[has |-> FALSE, latest |-> Undef], [has |-> TRUE, latest |-> Undef]} \cup
    {[has |-> TRUE, latest |-> Val(n)] : n \in RSIValues}

\* indicators.macd: absent, or the object calculateMACD returns, whose
\* latest is null or the last {MACD, signal, histogram}; signal and
\* histogram are undefined until the signal line has enough values
MACDLatest ==
    [MACD : {Val(n) : n \in MACDValues},
     signal : {Undef} \cup {Val(n) : n \in MACDValues},
     histogram : {Undef} \cup {Val(n) : n \in MACDValues}]
NoMACDLatest == [MACD |-> Undef, signal |-> Undef, histogram |-> Undef]
MACDInputs ==
    {[has |-> FALSE, latest |-> "null", value |-> NoMACDLatest],
     [has |-> TRUE, latest |-> "null", value |-> NoMACDLatest]} \cup
    {[has |-> TRUE, latest |-> "object", value |-> m] : m \in MACDLatest}

IndicatorInputs == [given : {TRUE}, rsi : RSIInputs, macd : MACDInputs]

\* an RSI rule with the bounds included
rsiList_inclusive(rsiValue) ==
    IF ~gt(rsiValue, Val(30)) /\ rsiValue.def THEN "buy"
    ELSE IF ~lt(rsiValue, Val(70)) /\ rsiValue.def THEN "sell"
    ELSE "hold"

\* the list the RSI entry is pushed to
rsiList(rsiValue) ==
    IF lt(rsiValue, Val(30)) THEN "buy"
    ELSE IF gt(rsiValue, Val(70)) THEN "sell"
    ELSE "hold"

rsiReason(list) ==
    IF list = "buy" THEN "Oversold (RSI < 30)"
    ELSE IF list = "sell" THEN "Overbought (RSI > 70)"
    ELSE "Neutral (30 < RSI < 70)"

\* the list the MACD entry is pushed to
macdList(m) ==
    IF gt(m.MACD, m.signal) /\ gt(m.histogram, Val(0)) THEN "buy"
    ELSE IF lt(m.MACD, m.signal) /\ lt(m.histogram, Val(0)) THEN "sell"
    ELSE "hold"

macdReason(list) ==
    IF list = "buy" THEN "MACD crossed above signal line"
    ELSE IF list = "sell" THEN "MACD crossed below signal line"
    ELSE "No clear MACD signal"

\* bound: the list lengths the strength rule is evaluated on
MaxSignals == 3

\* a strength that is 'strong' from two signals on
strengthOf_fromTwo(buys, sells) ==
    IF buys > sells THEN (IF buys >= 2 THEN "strong buy" ELSE "buy")
    ELSE IF sells > buys THEN (IF sells >= 2 THEN "strong sell" ELSE "sell")
    ELSE "neutral"

\* a strength that counts a tie as buy
strengthOf_tieBuys(buys, sells) ==
    IF buys >= sells THEN (IF buys > 2 THEN "strong buy" ELSE "buy")
    ELSE (IF sells > 2 THEN "strong sell" ELSE "sell")

\* the overall strength from signals.buy.length and signals.sell.length
strengthOf(buys, sells) ==
    IF buys > sells THEN (IF buys > 2 THEN "strong buy" ELSE "buy")
    ELSE IF sells > buys THEN (IF sells > 2 THEN "strong sell" ELSE "sell")
    ELSE "neutral"

\* the entries pushed, in order: RSI first, then MACD
pushedEntries(ind) ==
    (IF ind.rsi.has /\ ind.rsi.latest.def
     THEN <<[indicator |-> "RSI", list |-> rsiList(ind.rsi.latest),
             value |-> ind.rsi.latest,
             reason |-> rsiReason(rsiList(ind.rsi.latest))]>>
     ELSE <<>>) \o
    (IF ind.macd.has /\ ind.macd.latest = "object"
     THEN <<[indicator |-> "MACD", list |-> macdList(ind.macd.value),
             value |-> ind.macd.value,
             reason |-> macdReason(macdList(ind.macd.value))]>>
     ELSE <<>>)

\* the object pushed: {indicator, value, reason}
entryOf(e) == [indicator |-> e.indicator, value |-> e.value, reason |-> e.reason]

\* TechnicalAnalysisAgent.generateSignals(indicators)
generateSignals(ind) ==
    LET pushed   == pushedEntries(ind)
        into(l)  == LET es == SelectSeq(pushed, LAMBDA e : e.list = l)
                    IN  [k \in 1..Len(es) |-> entryOf(es[k])]
    IN  [returned |-> TRUE, buy |-> into("buy"), sell |-> into("sell"),
         hold |-> into("hold"),
         strength |-> strengthOf(Len(into("buy")), Len(into("sell")))]

GenerateSignals ==
    /\ indicators.given
    /\ ~signals.returned
    /\ signals' = generateSignals(indicators)
    /\ UNCHANGED <<indicators, batchVars, formatVars, factoryVars, callVars,
                   sentimentVars, streamVars, agentVars,
                   registryVars, executeVars>>

SignalInit ==
    /\ indicators \in IndicatorInputs
    /\ signals = NoSignals
    /\ BatchIdle /\ FormatIdle /\ FactoryIdle /\ CallsIdle
    /\ SentimentIdle /\ StreamIdle /\ AgentIdle
    /\ RegistryIdle /\ ExecuteIdle

SignalNext == GenerateSignals

SignalSpec == SignalInit /\ [][SignalNext]_vars

\* ============================ NewsSentimentAgent.calculateOverallSentiment
\* bound: articles of one call
MaxArticles == 3

\* article.sentiment.score, in hundredths
ScoreValues == {-50, -25, -5, 0, 5, 6, 25, 50}

ArticleSentiments ==
    {[k \in 1..Len(sc) |-> [sentiment |-> [score |-> sc[k]]]] :
        sc \in SeqsUpTo(ScoreValues, MaxArticles)}

\* totalScore and totalWeight after the first n iterations of the loop
RECURSIVE totals(_, _)
totals(arts, n) ==
    IF n = 0 THEN [totalScore |-> 0, totalWeight |-> 0]
    ELSE LET before == totals(arts, n - 1)
             weight == 1
         IN  [totalScore  |-> before.totalScore + arts[n].sentiment.score * weight,
              totalWeight |-> before.totalWeight + weight]

\* a number as the quotient num / den (den > 0), in hundredths
Quot(num, den) == [num |-> num, den |-> den]

\* `totalWeight > 0 ? totalScore / totalWeight : 0`
averageOf(t) ==
    IF t.totalWeight > 0 THEN Quot(t.totalScore, t.totalWeight) ELSE Quot(0, 1)

\* a comparison that admits the bound itself
above_inclusive(q, c) == q.num >= c * q.den

\* `averageScore > c`, c in hundredths
above(q, c) == q.num > c * q.den

assessmentOf(averageScore) ==
    IF above(averageScore, 25) THEN "very positive"
    ELSE IF above(averageScore, 5) THEN "positive"
    ELSE IF above(averageScore, -5) THEN "neutral"
    ELSE IF above(averageScore, -25) THEN "negative"
    ELSE "very negative"

\* NewsSentimentAgent.calculateOverallSentiment(articleSentiments)
calculateOverallSentiment(arts) ==
    LET averageScore == averageOf(totals(arts, Len(arts)))
    IN  [returned |-> TRUE, score |-> averageScore,
         assessment |-> assessmentOf(averageScore), articleCount |-> Len(arts)]

CalculateOverallSentiment ==
    /\ ~overallSentiment.returned
    /\ overallSentiment' = calculateOverallSentiment(articleSentiments)
    /\ UNCHANGED <<articleSentiments, batchVars, formatVars, factoryVars, callVars,
                   signalVars, streamVars, agentVars,
                   registryVars, executeVars>>

SentimentInit ==
    /\ articleSentiments \in ArticleSentiments
    /\ overallSentiment = NoSentiment
    /\ BatchIdle /\ FormatIdle /\ FactoryIdle /\ CallsIdle
    /\ SignalIdle /\ StreamIdle /\ AgentIdle
    /\ RegistryIdle /\ ExecuteIdle

SentimentNext == CalculateOverallSentiment

SentimentSpec == SentimentInit /\ [][SentimentNext]_vars

\* ================================================== LLM connectors: streamChat
\* One streamChat call of an AnthropicConnector or OpenAIConnector: the POST
\* with responseType 'stream', and the handlers it registers on the stream.

\* bounds: the chunks of a stream and the lines of a chunk
MaxChunks == 3
MaxLines  == 2

Connectors == {"anthropic", "openai"}

\* the non-blank lines of a chunk, as the handler tells them apart:
\*   "delta"   a complete data line carrying text
\*   "empty"   a complete data line with a delta that carries no text
\*   "marker"  the line that ends the message ('event: message_stop' /
\*             'data: [DONE]')
\*   "other"   any other line, a fragment of a line split between two
\*             chunks included
LineKinds == {"delta", "empty", "marker", "other"}

\* the vendor sends nothing after the marker: the chunks that may follow
\* what has been sent so far
ChunksAfter(markerSent) ==
    IF markerSent THEN {}
    ELSE {c \in SeqsUpTo(LineKinds, MaxLines) :
             c # <<>> /\ \A k \in 1..(Len(c) - 1) : c[k] # "marker"}

\* does the handler emit 'data' for the line
emitsData(connector, line) ==
    IF connector = "anthropic" THEN line = "delta"
    ELSE line \in {"delta", "empty"}

\* the test of the marker branch (line.includes(...)): this.emit('end'); return
finishes(line) == line = "marker"

\* the events the 'data' handler emits for the first n lines of a chunk, and
\* whether it has returned
RECURSIVE onData(_, _, _)
onData(connector, lines, n) ==
    IF n = 0 THEN [events |-> <<>>, returned |-> FALSE]
    ELSE LET before == onData(connector, lines, n - 1)
         IN  IF before.returned THEN before
             ELSE IF finishes(lines[n])
                  THEN [events |-> Append(before.events, "end"), returned |-> TRUE]
                  ELSE IF emitsData(connector, lines[n])
                       THEN [before EXCEPT !.events = Append(@, "data")]
                       ELSE before

\* connector.streamChat(messages, options): the request is posted
StreamChat(connector) ==
    /\ stream.state = "none"
    /\ stream' = [connector |-> connector, state |-> "posted", chunks |-> 0,
                  markerSent |-> FALSE]
    /\ UNCHANGED <<emitted, batchVars, formatVars, factoryVars, callVars,
                   signalVars, sentimentVars, agentVars,
                   registryVars, executeVars>>

\* the POST fails: the .catch handler
PostRejects ==
    /\ stream.state = "posted"
    /\ stream' = [stream EXCEPT !.state = "failed"]
    /\ emitted' = Append(emitted, "error")
    /\ UNCHANGED <<batchVars, formatVars, factoryVars, callVars,
                   signalVars, sentimentVars, agentVars,
                   registryVars, executeVars>>

\* the POST succeeds: the .then handler registers the stream's handlers
PostResolves ==
    /\ stream.state = "posted"
    /\ stream' = [stream EXCEPT !.state = "open"]
    /\ UNCHANGED <<emitted, batchVars, formatVars, factoryVars, callVars,
                   signalVars, sentimentVars, agentVars,
                   registryVars, executeVars>>

\* response.data emits 'data' with a chunk
ChunkArrives(lines) ==
    /\ stream.state = "open"
    /\ stream.chunks < MaxChunks
    /\ lines \in ChunksAfter(stream.markerSent)
    /\ stream' = [stream EXCEPT !.chunks = @ + 1,
                                !.markerSent = lines[Len(lines)] = "marker"]
    /\ emitted' = emitted \o onData(stream.connector, lines, Len(lines)).events
    /\ UNCHANGED <<batchVars, formatVars, factoryVars, callVars,
                   signalVars, sentimentVars, agentVars,
                   registryVars, executeVars>>

\* response.data emits 'end': the vendor closed the stream
StreamEnds ==
    /\ stream.state = "open"
    /\ stream' = [stream EXCEPT !.state = "closed"]
    /\ emitted' = Append(emitted, "end")
    /\ UNCHANGED <<batchVars, formatVars, factoryVars, callVars,
                   signalVars, sentimentVars, agentVars,
                   registryVars, executeVars>>

\* response.data emits 'error' (the connection broke): no handler is
\* registered for it
StreamBreaks ==
    /\ stream.state = "open"
    /\ stream' = [stream EXCEPT !.state = "broken"]
    /\ UNCHANGED <<emitted, batchVars, formatVars, factoryVars, callVars,
                   signalVars, sentimentVars, agentVars,
                   registryVars, executeVars>>

StreamNext ==
    \/ \E connector \in Connectors : StreamChat(connector)
    \/ PostRejects
    \/ PostResolves
    \/ \E lines \in SeqsUpTo(LineKinds, MaxLines) : ChunkArrives(lines)
    \/ StreamEnds
    \/ StreamBreaks

StreamSpec == Init /\ [][StreamNext]_vars

\* ======================================================= agent lifecycle
\* One TechnicalAnalysisAgent or NewsSentimentAgent and the initialize,
\* execute and cleanup calls made on it.  initialize and cleanup reach the
\* assignment of BaseAgent synchronously, within the call.

\* bound: lifecycle calls on the agent
MaxLifecycle == 4

AgentKinds   == {"technical", "sentiment"}
AgentConfigs == {{}, {"symbol"}}

\* inputs of execute: market data / articles present, or missing
ExecuteInputs == {"data", "nothing"}

\* a checkInitialized that never throws
checkInitialized_skipped(a) == FALSE

\* BaseAgent.checkInitialized: TRUE = throws 'Agent ... is not initialized'
checkInitialized(a) == ~a.isInitialized

\* how execute ends once checkInitialized has passed
analysisOutcome(kind, inputs) ==
    IF kind = "technical" /\ inputs = "nothing" THEN "invalid_data" ELSE "result"

\* new TechnicalAnalysisAgent(id) / new NewsSentimentAgent(id)
NewAgent(kind) ==
    /\ agent = NoAgent
    /\ agent' = [kind |-> kind, isInitialized |-> FALSE, config |-> {}]
    /\ UNCHANGED <<executions, batchVars, formatVars, factoryVars, callVars,
                   signalVars, sentimentVars, streamVars,
                   registryVars, executeVars>>

\* agent.initialize(config)
Initialize(config) ==
    /\ agent.kind # "none"
    /\ Len(executions) < MaxLifecycle
    /\ agent' = [agent EXCEPT !.config = @ \cup config, !.isInitialized = TRUE]
    /\ executions' = Append(executions, [call |-> "initialize", outcome |-> "done",
                                         readInputs |-> FALSE])
    /\ UNCHANGED <<batchVars, formatVars, factoryVars, callVars,
                   signalVars, sentimentVars, streamVars,
                   registryVars, executeVars>>

\* agent.cleanup()
Cleanup ==
    /\ agent.kind # "none"
    /\ Len(executions) < MaxLifecycle
    /\ agent' = [agent EXCEPT !.isInitialized = FALSE]
    /\ executions' = Append(executions, [call |-> "cleanup", outcome |-> "done",
                                         readInputs |-> FALSE])
    /\ UNCHANGED <<batchVars, formatVars, factoryVars, callVars,
                   signalVars, sentimentVars, streamVars,
                   registryVars, executeVars>>

\* agent.execute(inputs)
Execute(inputs) ==
    /\ agent.kind # "none"
    /\ Len(executions) < MaxLifecycle
    /\ executions' =
           Append(executions,
                  IF checkInitialized(agent)
                  THEN [call |-> "execute", outcome |-> "not_initialized",
                        readInputs |-> FALSE]
                  ELSE [call |-> "execute",
                        outcome |-> analysisOutcome(agent.kind, inputs),
                        readInputs |-> TRUE])
    /\ UNCHANGED <<agent, batchVars, formatVars, factoryVars, callVars,
                   signalVars, sentimentVars, streamVars,
                   registryVars, executeVars>>

AgentNext ==
    \/ \E kind \in AgentKinds : NewAgent(kind)
    \/ \E config \in AgentConfigs : Initialize(config)
    \/ Cleanup
    \/ \E inputs \in ExecuteInputs : Execute(inputs)

AgentSpec == Init /\ [][AgentNext]_vars

\* ============================================================= AgentFactory
\* The named-instance registry: registerAgentType, createAgent, getAgent,
\* removeAgent on the one AgentFactory, and initialize called on an agent by
\* a holder of its reference.

\* bound: agents constructed by the factory
MaxAgents == 2

AgentTypes  == {"technical", "sentiment", "unknown"}
AgentIds    == {"a1", "a2"}

\* the class registerAgentType is called with for a type
AgentClass(agentType) == agentType

\* an agent object on the heap, as new AgentClass(id) leaves it; cleanups =
\* cleanup() has been invoked on it.  An agent is referred to by its
\* position in agentObjects; 0 stands for undefined.
NewAgentObject(class, id) ==
    [class |-> class, id |-> id, isInitialized |-> FALSE, cleanups |-> FALSE]


\* Map.prototype.set / delete / get on a map held as a function
mapSet(m, k, v)  == (k :> v) @@ m
mapDelete(m, k)  == [x \in DOMAIN m \ {k} |-> m[x]]
mapGet(m, k, no) == IF k \in DOMAIN m THEN m[k] ELSE no

\* AgentFactory.getAgent(id)
getAgent(insts, id) == mapGet(insts, id, 0)

\* AgentFactory.getAllAgents()
getAllAgents(insts) == {insts[id] : id \in DOMAIN insts}

\* BaseAgent.cleanup, up to its first suspension point
cleanup(obj) == [obj EXCEPT !.isInitialized = FALSE, !.cleanups = TRUE]

\* AgentFactory.createAgent(agentType, id)
createAgent(reg, insts, objs, agentType, id) ==
    IF agentType \notin DOMAIN reg
    THEN [threw |-> TRUE, objects |-> objs, instances |-> insts, agent |-> 0]
    ELSE LET obj == NewAgentObject(reg[agentType], id)
         IN  [threw |-> FALSE, objects |-> Append(objs, obj),
              instances |-> mapSet(insts, id, Len(objs) + 1),
              agent |-> Len(objs) + 1]

\* a removeAgent that deletes the entry without calling cleanup
removeAgent_noCleanup(insts, objs, id) ==
    [removed |-> id \in DOMAIN insts, objects |-> objs,
     instances |-> mapDelete(insts, id)]

\* AgentFactory.removeAgent(id)
removeAgent(insts, objs, id) ==
    LET agentRef == getAgent(insts, id)
    IN  IF agentRef # 0
        THEN [removed |-> TRUE,
              objects |-> [objs EXCEPT ![agentRef] = cleanup(@)],
              instances |-> mapDelete(insts, id)]
        ELSE [removed |-> FALSE, objects |-> objs, instances |-> insts]

\* agentFactory.registerAgentType(agentType, AgentClass)
RegisterAgentType(agentType) ==
    /\ agentRegistry' = mapSet(agentRegistry, agentType, AgentClass(agentType))
    /\ factoryCall' = [NoCall EXCEPT !.op = "registerAgentType"]
    /\ UNCHANGED <<agentInstances, agentObjects>>
    /\ UNCHANGED <<batchVars, formatVars, factoryVars, callVars, signalVars,
                   sentimentVars, streamVars, agentVars, executeVars>>

\* agentFactory.createAgent(agentType, id)
CreateAgent(agentType, id) ==
    LET r == createAgent(agentRegistry, agentInstances, agentObjects, agentType, id)
    IN  /\ Len(agentObjects) < MaxAgents
        /\ agentObjects' = r.objects
        /\ agentInstances' = r.instances
        /\ factoryCall' = [op |-> "createAgent", threw |-> r.threw,
                           agent |-> r.agent, removed |-> FALSE]
        /\ UNCHANGED agentRegistry
        /\ UNCHANGED <<batchVars, formatVars, factoryVars, callVars, signalVars,
                       sentimentVars, streamVars, agentVars, executeVars>>

\* agentFactory.removeAgent(id)
RemoveAgent(id) ==
    LET r == removeAgent(agentInstances, agentObjects, id)
    IN  /\ agentObjects' = r.objects
        /\ agentInstances' = r.instances
        /\ factoryCall' = [op |-> "removeAgent", threw |-> FALSE,
                           agent |-> 0, removed |-> r.removed]
        /\ UNCHANGED agentRegistry
        /\ UNCHANGED <<batchVars, formatVars, factoryVars, callVars, signalVars,
                       sentimentVars, streamVars, agentVars, executeVars>>

\* agent.initialize(config) on the k-th constructed agent
InitializeAgent(k) ==
    /\ k \in 1..Len(agentObjects)
    /\ agentObjects' = [agentObjects EXCEPT ![k].isInitialized = TRUE]
    /\ factoryCall' = NoCall
    /\ UNCHANGED <<agentRegistry, agentInstances>>
    /\ UNCHANGED <<batchVars, formatVars, factoryVars, callVars, signalVars,
                   sentimentVars, streamVars, agentVars, executeVars>>

RegistryNext ==
    \/ \E agentType \in AgentTypes \ {"unknown"} : RegisterAgentType(agentType)
    \/ \E agentType \in AgentTypes, id \in AgentIds : CreateAgent(agentType, id)
    \/ \E id \in AgentIds : RemoveAgent(id)
    \/ \E k \in 1..MaxAgents : InitializeAgent(k)

RegistrySpec == Init /\ [][RegistryNext]_vars

\* ================================================ NewsSentimentAgent.execute
\* One execute call on an initialized NewsSentimentAgent.  Every action is
\* the code that runs between two suspension points (await of
\* analyzeSentiment, await of axios.get in fetchArticlesFromSources).

\* bound: length of inputs.sources
MaxSources == 2

\* inputs.articles / inputs.sources: an array, or anything else (undefined,
\* a string, ...), for which `x && Array.isArray(x)` is false
ArrayOf(seq) == [isArray |-> TRUE, items |-> seq]

Article(title) == [title |-> title]

ArticleInputs ==
    {NotArray, ArrayOf(<<>>), ArrayOf(<<Article("d1")>>),
     ArrayOf(<<Article("d1"), Article("d2")>>)}
SourceInputs ==
    {NotArray} \cup {ArrayOf(s) : s \in SeqsUpTo({"u1", "u2"}, MaxSources)}

\* what axios.get(source) settles with: rejects = the promise rejects;
\* noData = response.data is null or undefined; hasArticles =
\* response.data.articles is an array, articles = its elements
SourceResponse(rejects, noData, hasArticles, articles) ==
    [rejects |-> rejects, noData |-> noData, hasArticles |-> hasArticles,
     articles |-> articles]
SourceResponses ==
    {SourceResponse(TRUE, FALSE, FALSE, <<>>),
     SourceResponse(FALSE, TRUE, FALSE, <<>>),
     SourceResponse(FALSE, FALSE, FALSE, <<>>),
     SourceResponse(FALSE, FALSE, TRUE, <<>>),
     SourceResponse(FALSE, FALSE, TRUE, <<Article("x")>>),
     SourceResponse(FALSE, FALSE, TRUE, <<Article("x"), Article("y")>>)}

\* what the awaited analyzeSentiment settles with: a score (in hundredths),
\* or the library's rejection
Scored(score)     == [threw |-> FALSE, score |-> score]
ScoringThrew      == [threw |-> TRUE, score |-> 0]
SentimentOutcomes == {Scored(-25), Scored(6), ScoringThrew}

\* analysis: the frame of the execute call and of its
\* fetchArticlesFromSources call
\*   pc         "direct" / "score": analyzeSentiment pending in the first /
\*              second loop; "fetch": axios.get pending; "returned"; "threw"
\*   i, j, k    positions of the three for..of loops (1-based)
\*   fetched    `articles` of fetchArticlesFromSources
\*   responses  the sources requested so far and what each settled with
\* NewsSentimentAgent.parseArticlesFromResponse(responseData)
parseArticlesFromResponse(responseData) ==
    IF responseData.hasArticles
    THEN [n \in 1..Len(responseData.articles) |-> Article(responseData.articles[n].title)]
    ELSE <<>>

\* a catch block that rethrows the source's error
afterSourceError_rethrow(f) == [f EXCEPT !.pc = "threw"]

\* fetchArticlesFromSources: the catch block of the loop (log, next source)
afterSourceError(f) == [f EXCEPT !.j = @ + 1]

\* execute: lines 81-87, the result object it returns
finish(f) ==
    [f EXCEPT !.pc = "returned",
              !.overallSentiment =
                  IF Len(f.articleSentiments) > 0
                  THEN calculateOverallSentiment(f.articleSentiments)
                  ELSE NoSentiment]

\* the synchronous code from a loop head to the next await or to the return
RECURSIVE runOn(_)
runOn(f) ==
    IF f.pc = "direct"
    THEN IF f.articles.isArray /\ f.i <= Len(f.articles.items) THEN f
         ELSE runOn([f EXCEPT !.pc = "fetch"])
    ELSE IF f.pc = "fetch"
    THEN IF f.sources.isArray /\ f.j <= Len(f.sources.items) THEN f
         ELSE runOn([f EXCEPT !.pc = "score"])
    ELSE IF f.pc = "score"
    THEN IF f.k <= Len(f.fetched) THEN f ELSE finish(f)
    ELSE f

\* `results.articleSentiments.push({title, url, sentiment})`
pushSentiment(f, article, sentiment) ==
    [f EXCEPT !.articleSentiments =
                  Append(@, [title |-> article.title,
                             sentiment |-> [score |-> sentiment.score]])]

\* agent.execute({articles, sources})
ExecuteSentiment(articles, sources) ==
    /\ analysis = NoAnalysis
    /\ analysis' = runOn([NoAnalysis EXCEPT !.pc = "direct", !.articles = articles,
                                            !.sources = sources])
    /\ UNCHANGED <<batchVars, formatVars, factoryVars, callVars, signalVars,
                   sentimentVars, streamVars, agentVars, registryVars>>

\* the awaited analyzeSentiment settles
SentimentSettles(outcome) ==
    LET f       == analysis
        article == IF f.pc = "direct" THEN f.articles.items[f.i] ELSE f.fetched[f.k]
        pushed  == pushSentiment(f, article, outcome)
    IN  /\ f.pc \in {"direct", "score"}
        /\ analysis' =
               IF outcome.threw THEN [f EXCEPT !.pc = "threw"]
               ELSE IF f.pc = "direct" THEN runOn([pushed EXCEPT !.i = @ + 1])
               ELSE runOn([pushed EXCEPT !.k = @ + 1])
        /\ UNCHANGED <<batchVars, formatVars, factoryVars, callVars, signalVars,
                       sentimentVars, streamVars, agentVars, registryVars>>

\* the awaited axios.get(source) settles
SourceSettles(resp) ==
    LET f    == analysis
        seen == [f EXCEPT !.responses =
                              Append(@, [source |-> f.sources.items[f.j],
                                         response |-> resp])]
    IN  /\ f.pc = "fetch"
        /\ analysis' =
               IF resp.rejects \/ resp.noData
               THEN runOn(afterSourceError(seen))
               ELSE runOn([seen EXCEPT !.fetched = @ \o parseArticlesFromResponse(resp),
                                       !.j = @ + 1])
        /\ UNCHANGED <<batchVars, formatVars, factoryVars, callVars, signalVars,
                       sentimentVars, streamVars, agentVars, registryVars>>

ExecuteNext ==
    \/ \E articles \in ArticleInputs, sources \in SourceInputs :
           ExecuteSentiment(articles, sources)
    \/ \E outcome \in SentimentOutcomes : SentimentSettles(outcome)
    \/ \E resp \in SourceResponses : SourceSettles(resp)

ExecuteSpec == Init /\ [][ExecuteNext]_vars

\* ================================================================== claims
Range(seq) == {seq[k] : k \in 1..Len(seq)}

\* every position of the list has been fetched and the fetch has settled
AllSettled ==
    /\ Len(log) = Len(symbols)
    /\ \A i \in 1..Len(log) : Settled(log[i])

\* f is the one symbol of the batch whose vendor call throws: the fetch at
\* every position holding f rejected, the fetch at every other position resolved
OnlyFailing(f) ==
    /\ AllSettled
    /\ f \in Range(symbols)
    /\ \A i \in 1..Len(symbols) : (log[i].status = "failed") <=> (symbols[i] = f)

\* C1: when the batch returns and exactly one symbol's vendor call threw,
\* the returned mapping has an entry for every other symbol of the list and
\* none for the failing symbol, and the error record has exactly one entry,
\* keyed by the failing symbol (both providers).
C1_OneFailure ==
    pc = "done" =>
        \A f \in Symbols :
            OnlyFailing(f) =>
                /\ DOMAIN result = Range(symbols) \ {f}
                /\ DOMAIN errors = {f}

C1_Witness ==
    /\ pc = "done"
    /\ symbols = <<"A", "B", "A">>
    /\ OnlyFailing("B")
    /\ \A i \in 1..Len(log) : log[i].requested
    /\ DOMAIN result = {"A"}

\* C2: in an Alpha Vantage batch, the delay awaited after a response whose
\* Note includes "call frequency" is 60000 ms, and the delay awaited after a
\* response without rate-limit wording is 1500 ms.
C2_NoteSetsDelay ==
    (pc = "delay" /\ provider.kind = "alphavantage") =>
        /\ log[Len(log)].note => timer = 60000
        /\ ~log[Len(log)].wording => timer = 1500

\* the batch has returned after a fetch, in list order, of every position
Returned ==
    /\ pc = "done"
    /\ AllSettled
    /\ \A i \in 1..Len(symbols) : log[i].symbol = symbols[i]

\* C3: a fetchMultipleSymbols call never throws and, every request, write
\* and timer completing, eventually returns after a fetch for every
\* position of the list in list order (both providers).
C3_BatchCompletes == (pc = "loop") ~> Returned

C3_Witness ==
    /\ Returned
    /\ Len(symbols) = 3
    /\ \E i, j \in 1..Len(log) : log[i].status = "failed" /\ log[j].status = "ok"

C5_OneDelayPerLaterPosition ==
    provider.kind = "alphavantage" =>
        \A i \in 1..Len(log) :
            IF i = 1 THEN log[i].delays = <<>>
            ELSE /\ Len(log[i].delays) = 1
                 /\ log[i].delays[1] \in {60000, 1500}

\* C6: in an Alpha Vantage batch the flag is false at the start, and a
\* 60000 ms delay is awaited only directly after a fetch that signalled
\* rate limiting.
C6_LongDelayOnlyAfterSignal ==
    provider.kind = "alphavantage" =>
        /\ (pc = "loop" /\ log = <<>>) => ~isRateLimited
        /\ (pc = "delay" /\ timer = 60000) => log[Len(log)].wording

\* C7: when the batch returns, every symbol of the list is a key of exactly
\* one of result and errors, for every list, repeated symbols included.
C7_ResultErrorPartition ==
    pc = "done" =>
        /\ DOMAIN result \cup DOMAIN errors = Range(symbols)
        /\ DOMAIN result \cap DOMAIN errors = {}

\* C8: a constructor call with store true and storageDir absent or empty
\* throws: no provider instance exists, no directory was created and no
\* request was or will be issued.
C8_StoreNeedsStorageDir ==
    /\ [](pc = "ctor_threw" => (provider = NoProvider /\ requests = 0 /\ log = <<>>))
    /\ [][\A kind \in {"alphavantage", "yahoo"}, d \in {Undefined, ""},
             k \in KeyOptions, e \in EnvKeys, x \in BOOLEAN, m \in BOOLEAN :
             Construct(kind, "true", d, k, e, x, m) =>
                 /\ pc' = "ctor_threw"
                 /\ provider' = NoProvider
                 /\ mkdirCalls' = mkdirCalls
                 /\ requests' = 0]_vars

C8_Witness ==
    /\ ctor = "no_storage_dir"
    /\ pc = "ctor_threw"
    /\ mkdirCalls = 0
    /\ provider = NoProvider

\* C9: with store enabled, a fetch whose archive write was attempted ends
\* the same way whether the write succeeded or threw: it returns the points
\* formatted from the response (Yahoo: or fails on the response's missing
\* fields); no fetch fails with the error of the write.
C9_WriteFailureSwallowed ==
    \A i \in 1..Len(log) :
        /\ log[i].err.kind # "storage"
        /\ log[i].write \in {"ok", "failed"} =>
              IF provider.kind = "alphavantage"
              THEN /\ log[i].status = "ok"
                   /\ log[i].points = <<[time |-> 2], [time |-> 1]>>
              ELSE IF log[i].chart.indicators /\ log[i].chart.fields
                   THEN /\ log[i].status = "ok"
                        /\ log[i].points = yahooFormat(log[i].chart.rows)
                   ELSE /\ log[i].status = "failed"
                        /\ log[i].err.kind \in {"type", "format"}

C9_Witness ==
    \E i \in 1..Len(log) :
        /\ log[i].write = "failed"
        /\ log[i].status = "ok"
        /\ log[i].points # <<>>

\* C10: Alpha Vantage issues a request only with an API key that is
\* non-empty and not the placeholder; otherwise every fetch fails with the
\* credential error, no request is sent, and the batch returns an empty
\* mapping with every symbol recorded as failed.  A Yahoo fetch never fails
\* on credentials: every fetch issues its request.
C10_Credentials ==
    /\ (provider.kind = "alphavantage" /\ provider.apiKey \in {"", Placeholder}) =>
           /\ requests = 0
           /\ \A i \in 1..Len(log) : ~log[i].requested /\ log[i].status = "failed"
           /\ log # <<>> => log[Len(log)].err.kind = "credential"
           /\ pc = "done" => (result = EmptyMap /\ DOMAIN errors = Range(symbols))
    /\ provider.kind = "yahoo" =>
           \A i \in 1..Len(log) : log[i].requested /\ log[i].err.kind # "credential"

C10_Witness ==
    /\ pc = "done"
    /\ provider.kind = "alphavantage"
    /\ provider.apiKey = Placeholder
    /\ Len(symbols) = 2
    /\ DOMAIN errors = Range(symbols)
    /\ requests = 0

\* C11: for every valid Alpha Vantage response whose 'Time Series (Daily)'
\* has N entries, fetchDailyTimeSeries returns exactly N points, one per
\* date key, carrying the numbers its five fields denote, in strictly
\* descending order of date.
C11_AlphaNPoints ==
    (response.provider = "alphavantage" /\ formattedData.returned) =>
        LET ts  == response.series
            pts == formattedData.points
        IN  /\ Len(pts) = Len(ts)
            /\ \A k \in 1..Len(ts) : \E q \in AVQuotes :
                   /\ ts[k] = avEntry(ts[k].date, q)
                   /\ Cardinality({i \in 1..Len(pts) : pts[i].time = ts[k].date}) = 1
                   /\ \E i \in 1..Len(pts) :
                          pts[i] = [time |-> ts[k].date,
                                    open |-> Num(q.open, 4), high |-> Num(q.high, 4),
                                    low |-> Num(q.low, 4), close |-> Num(q.close, 4),
                                    volume |-> Num(q.volume, 0)]
            /\ \A i \in 1..(Len(pts) - 1) : pts[i].time > pts[i + 1].time

C11_Witness ==
    /\ response.provider = "alphavantage"
    /\ formattedData.returned
    /\ Len(response.series) = 3
    /\ response.series[1].date < response.series[2].date
    /\ Len(formattedData.points) = 3
    /\ formattedData.points[1].open = [m |-> 15, e |-> 1]
    /\ formattedData.points[1].high = [m |-> 123456, e |-> 4]
    /\ formattedData.points[1].volume = [m |-> 1050, e |-> 0]

\* C12: for every Yahoo response that passed validation, the points
\* returned are exactly the points of the indices none of whose open, high,
\* low, close, volume is null; their number is the number of timestamps
\* minus the number of skipped indices; timestamp=[t] with close=[null]
\* yields the empty sequence.
C12_YahooSkipsNulls ==
    (response.provider = "yahoo" /\ formattedData.returned) =>
        LET ts    == response.chart.timestamp
            q     == response.chart.quote
            pts   == formattedData.points
            kept  == {i \in 1..Len(ts) :
                         /\ q.open[i] # Null /\ q.high[i] # Null /\ q.low[i] # Null
                         /\ q.close[i] # Null /\ q.volume[i] # Null}
            at(i) == [time |-> ts[i] \div 86400, open |-> q.open[i], high |-> q.high[i],
                      low |-> q.low[i], close |-> q.close[i], volume |-> q.volume[i]]
        IN  /\ Len(pts) = Len(ts) - Cardinality((1..Len(ts)) \ kept)
            /\ \A p \in Range(pts) \cup {at(i) : i \in kept} :
                   Cardinality({j \in 1..Len(pts) : pts[j] = p}) =
                   Cardinality({i \in kept : at(i) = p})
            /\ (Len(ts) = 1 /\ q.close[1] = Null) => pts = <<>>

C12_Witness ==
    /\ response.provider = "yahoo"
    /\ formattedData.returned
    /\ Len(response.chart.timestamp) = 3
    /\ response.chart.quote.close[1] = Null
    /\ response.chart.quote.open[2] # Null
    /\ response.chart.quote.volume[2] = [m |-> 0, e |-> 0]
    /\ response.chart.quote.volume[3] = [m |-> 900, e |-> 0]
    /\ Len(formattedData.points) = 2

\* C13: in every series fetchDailyTimeSeries returns, of either provider,
\* the time values are pairwise distinct and the series is ordered newest
\* first; for Yahoo for every timestamp array, two timestamps of the same
\* UTC calendar date included.
C13_DistinctNewestFirst ==
    formattedData.returned =>
        LET pts == formattedData.points
        IN  /\ \A i, j \in 1..Len(pts) : i # j => pts[i].time # pts[j].time
            /\ \A i, j \in 1..Len(pts) : i < j => pts[i].time >= pts[j].time

\* C14: createProvider returns an Alpha Vantage provider for 'alphavantage'
\* and a Yahoo provider for 'yahoo' (unless the constructor rejects the
\* options), throws the unknown-provider error for every other tag and
\* only then, and every call that returns yields a new instance: one that
\* did not exist before, with every earlier instance left as it was.
C14_FreshProviderPerCall ==
    [][created'.call # created.call =>
          /\ created'.type \in {"alphavantage", "yahoo"} =>
                 created'.outcome \in {"returned", "no_storage_dir", "mkdir_failed"}
          /\ created'.type \notin {"alphavantage", "yahoo"} =>
                 created'.outcome = "unknown_provider"
          /\ created'.outcome = "returned" =>
                 /\ created'.id \notin DOMAIN instances
                 /\ created'.id \in DOMAIN instances'
                 /\ instances'[created'.id].kind = created'.type
                 /\ \A i \in DOMAIN instances : instances'[i] = instances[i]
          /\ created'.outcome # "returned" => instances' = instances]_vars

C14_Witness ==
    /\ Len(instances) = 2
    /\ instances[1].kind = "yahoo"
    /\ instances[2].kind = "yahoo"
    /\ instances[2].store /\ ~instances[1].store
    /\ created = [type |-> "yahoo", outcome |-> "returned", id |-> 2, call |-> 2]

\* C15: the rate-limit flag of an Alpha Vantage batch is local to the call:
\* every delay a fetchMultipleSymbols call awaits is the one its own
\* rate-limit signals determine, whatever other calls on the same instance
\* have seen, before it or interleaved with it; a new call starts with the
\* flag false.
C15_FlagLocalToCall ==
    \A c \in 1..Len(calls) :
        /\ readFlag(c) = calls[c].own
        /\ calls[c].pc = "delay" => calls[c].timer = getRecommendedDelay(calls[c].own)

C15_Witness ==
    /\ Len(calls) = 2
    /\ calls[1].pc = "delay" /\ calls[1].timer = 60000
    /\ calls[2].pc = "delay" /\ calls[2].timer = 1500

\* the lists of signals that hold an entry for indicator name
ListsWith(name) ==
    {l \in {"buy", "sell", "hold"} :
        \E k \in 1..Len(signals[l]) : signals[l][k].indicator = name}

\* C16: generateSignals puts the RSI entry in exactly one list: buy when
\* the latest RSI is below 30, sell when it is above 70, hold otherwise (30
\* and 70 included); and the MACD entry in buy when MACD > signal and
\* histogram > 0, in sell when MACD < signal and histogram < 0, in hold
\* otherwise.  With latest RSI 25 and no MACD data the buy list is the one
\* entry (RSI, 'Oversold (RSI < 30)') and strength is 'buy'.
C16_SignalRules ==
    signals.returned =>
        LET rsi == indicators.rsi.latest
            m   == indicators.macd.value
        IN  /\ (indicators.rsi.has /\ rsi.def) =>
                   /\ Cardinality(ListsWith("RSI")) = 1
                   /\ Len(signals.buy) + Len(signals.sell) + Len(signals.hold) =
                          1 + Cardinality(ListsWith("MACD"))
                   /\ ("buy" \in ListsWith("RSI")) <=> rsi.v < 30
                   /\ ("sell" \in ListsWith("RSI")) <=> rsi.v > 70
                   /\ ("hold" \in ListsWith("RSI")) <=> (rsi.v >= 30 /\ rsi.v <= 70)
            /\ (indicators.macd.has /\ indicators.macd.latest = "object") =>
                   /\ Cardinality(ListsWith("MACD")) = 1
                   /\ ("buy" \in ListsWith("MACD")) <=>
                          (m.signal.def /\ m.histogram.def /\
                           m.MACD.v > m.signal.v /\ m.histogram.v > 0)
                   /\ ("sell" \in ListsWith("MACD")) <=>
                          (m.signal.def /\ m.histogram.def /\
                           m.MACD.v < m.signal.v /\ m.histogram.v < 0)
            /\ (indicators.rsi.has /\ rsi = [def |-> TRUE, v |-> 25] /\
                ~(indicators.macd.has /\ indicators.macd.latest = "object")) =>
                   /\ Len(signals.buy) = 1
                   /\ signals.buy[1].indicator = "RSI"
                   /\ signals.buy[1].reason = "Oversold (RSI < 30)"
                   /\ signals.sell = <<>> /\ signals.hold = <<>>
                   /\ signals.strength = "buy"

C16_Witness ==
    /\ signals.returned
    /\ indicators.rsi.has /\ indicators.rsi.latest = [def |-> TRUE, v |-> 30]
    /\ indicators.macd.has /\ indicators.macd.latest = "object"
    /\ indicators.macd.value.MACD.v < indicators.macd.value.signal.v
    /\ indicators.macd.value.histogram = [def |-> TRUE, v |-> -1]
    /\ Len(signals.hold) = 1 /\ signals.hold[1].indicator = "RSI"
    /\ signals.hold[1].reason = "Neutral (30 < RSI < 70)"
    /\ Len(signals.sell) = 1 /\ signals.sell[1].indicator = "MACD"

\* C17: the strength generateSignals returns is 'buy' when there are more
\* buy than sell signals ('strong buy' when the buy count is also above 2),
\* 'sell' when there are more sell than buy signals ('strong sell' when the
\* sell count is above 2), and 'neutral' when the counts are equal: in
\* every call, and for the rule applied to any pair of counts.
C17_Strength ==
    signals.returned =>
        LET buys  == Len(signals.buy)
            sells == Len(signals.sell)
        IN  /\ (buys > sells /\ buys > 2) => signals.strength = "strong buy"
            /\ (buys > sells /\ buys <= 2) => signals.strength = "buy"
            /\ (sells > buys /\ sells > 2) => signals.strength = "strong sell"
            /\ (sells > buys /\ sells <= 2) => signals.strength = "sell"
            /\ buys = sells => signals.strength = "neutral"
            /\ \A b, s \in 0..MaxSignals :
                   strengthOf(b, s) =
                       IF b > s /\ b > 2 THEN "strong buy"
                       ELSE IF b > s THEN "buy"
                       ELSE IF s > b /\ s > 2 THEN "strong sell"
                       ELSE IF s > b THEN "sell"
                       ELSE "neutral"

C17_Witness ==
    /\ signals.returned
    /\ Len(signals.buy) = 1 /\ Len(signals.sell) = 1
    /\ signals.buy[1].indicator = "MACD"
    /\ signals.strength = "neutral"

RECURSIVE SumScores(_)
SumScores(arts) ==
    IF arts = <<>> THEN 0
    ELSE arts[1].sentiment.score + SumScores(Tail(arts))

\* C18: for every non-empty list of article scores, calculateOverallSentiment
\* returns their unweighted mean m and the assessment 'very positive' if
\* m > 0.25, else 'positive' if m > 0.05, else 'neutral' if m > -0.05, else
\* 'negative' if m > -0.25, else 'very negative'; a mean equal to a bound
\* falls in the lower band.
C18_MeanAndBands ==
    (overallSentiment.returned /\ articleSentiments # <<>>) =>
        LET n   == Len(articleSentiments)
            sum == SumScores(articleSentiments)
        IN  /\ overallSentiment.score.den > 0
            /\ overallSentiment.score.num * n = sum * overallSentiment.score.den
            /\ overallSentiment.articleCount = n
            /\ overallSentiment.assessment =
                   CASE sum > 25 * n                    -> "very positive"
                     [] sum <= 25 * n /\ sum > 5 * n    -> "positive"
                     [] sum <= 5 * n /\ sum > -5 * n    -> "neutral"
                     [] sum <= -5 * n /\ sum > -25 * n  -> "negative"
                     [] sum <= -25 * n                  -> "very negative"

C18_Witness ==
    /\ overallSentiment.returned
    /\ Len(articleSentiments) = 3
    /\ articleSentiments[1].sentiment.score = 50
    /\ articleSentiments[2].sentiment.score = 0
    /\ articleSentiments[3].sentiment.score = 25
    /\ overallSentiment.score = [num |-> 75, den |-> 3]
    /\ overallSentiment.assessment = "positive"

Terminal == {"end", "error"}

\* C19: the events of a streamChat call are 'data' events followed by
\* exactly one terminal event: at most one 'end' or 'error' is emitted for
\* the stream and no 'data' follows it, however the vendor splits the
\* stream into chunks.
C19_OneTerminalEvent ==
    /\ Cardinality({k \in 1..Len(emitted) : emitted[k] \in Terminal}) <= 1
    /\ \A j, k \in 1..Len(emitted) :
           (j < k /\ emitted[j] \in Terminal) => emitted[k] # "data"

\* before call k, initialize was called more recently than cleanup
InitializedBefore(k) ==
    \E i \in 1..(k - 1) :
        /\ executions[i].call = "initialize"
        /\ \A j \in (i + 1)..(k - 1) : executions[j].call # "cleanup"

\* C20: for either agent and every sequence of initialize, execute and
\* cleanup calls, execute gets to its analysis exactly when initialize was
\* called more recently than cleanup; otherwise, a freshly constructed
\* agent included, it throws the 'not initialized' error before reading
\* its inputs, and it leaves the agent's state as it was.
C20_ExecuteNeedsInitialize ==
    /\ [](\A k \in 1..Len(executions) :
             executions[k].call = "execute" =>
                 IF InitializedBefore(k)
                 THEN /\ executions[k].outcome # "not_initialized"
                      /\ executions[k].readInputs
                 ELSE /\ executions[k].outcome = "not_initialized"
                      /\ ~executions[k].readInputs)
    /\ [][(Len(executions') > Len(executions) /\
           executions'[Len(executions')].outcome = "not_initialized") =>
              agent' = agent]_vars

C20_Witness ==
    /\ Len(executions) = 4
    /\ executions[1].call = "initialize"
    /\ executions[2].call = "execute" /\ executions[2].outcome = "result"
    /\ executions[3].call = "cleanup"
    /\ executions[4].call = "execute" /\ executions[4].outcome = "not_initialized"
    /\ agent.kind = "sentiment"

\* the responses that carry an 'Error Message'
ErrorMessageResponses == {resp \in AVResponses : ~resp.transport /\ resp.err.has}

\* C21: an Alpha Vantage response with an 'Error Message' makes the fetch
\* fail with an error that carries the vendor's message, whatever Note,
\* Information and 'Time Series (Daily)' the response also has; the fetch
\* returns no points and writes no archive file.
C21_ErrorMessageFails ==
    /\ [](provider.kind = "alphavantage" =>
            \A i \in 1..Len(log) :
                log[i].err.kind = "vendor" =>
                    /\ log[i].status = "failed"
                    /\ log[i].points = <<>>
                    /\ log[i].write = "none")
    /\ [][\A i \in InFlight, resp \in ErrorMessageResponses :
             AlphaResponds(i, resp) =>
                 /\ log'[i].status = "failed"
                 /\ log'[i].err = Err("vendor", resp.err.inc)
                 /\ log'[i].points = <<>>
                 /\ log'[i].write = "none"]_vars

C21_Witness ==
    /\ provider.kind = "alphavantage"
    /\ provider.store
    /\ \E i \in 1..Len(log) :
           /\ log[i].status = "failed"
           /\ log[i].err = Err("vendor", {CF})
           /\ log[i].note
           /\ log[i].write = "none"

\* C22: a Yahoo fetch whose response lacks chart.result (or has it empty),
\* or whose first result lacks timestamp, the indicators / quote container
\* or one of the five quote arrays, fails with a format error and returns
\* no points; a fetch returns points only from a response that has them all.
C22_YahooFormatError ==
    (provider.kind = "yahoo" /\ log # <<>>) =>
        LET f == log[Len(log)]
        IN  /\ f.status = "ok" => (f.chart.indicators /\ f.chart.fields)
            /\ (f.status = "failed" /\ f.err.kind # "transport") =>
                   /\ f.err.kind = "format"
                   /\ f.points = <<>>

\* C23: in a Yahoo batch over any list, the fetch at the first position has
\* no preceding delay and the fetch at every later position is preceded by
\* exactly one delay of 500 ms, whatever the earlier fetches' outcomes.
C23_YahooDelayPerLaterPosition ==
    provider.kind = "yahoo" =>
        \A i \in 1..Len(log) :
            log[i].delays = IF i = 1 THEN <<>> ELSE <<YahooDelay>>

\* one fetch per list position, in list order, each issuing at most one
\* vendor request
OneFetchPerPosition ==
    /\ Len(log) <= Len(symbols)
    /\ \A i \in 1..Len(log) : log[i].symbol = symbols[i]
    /\ requests = Cardinality({i \in 1..Len(log) : log[i].requested})
    /\ requests <= Len(symbols)

\* the fetch at the position before the loop's current one failed with a
\* response that had rate-limit wording
SignalledBefore ==
    /\ pc = "loop"
    /\ 1 < idx /\ idx <= Len(symbols)
    /\ Len(log) = idx - 1
    /\ log[idx - 1].status = "failed"
    /\ log[idx - 1].wording

\* C24: within one fetchMultipleSymbols call no fetch is retried: at most
\* one vendor request per list position, the loop never goes back to a
\* position, a settled fetch is never started again; and after a fetch that
\* signalled rate limiting the batch waits and then fetches the next
\* position, after a second consecutive signal as after the first.
C24_NoRetryWaitAndProceed ==
    /\ [](provider.kind = "alphavantage" => OneFetchPerPosition)
    /\ [][provider.kind = "alphavantage" =>
             /\ (pc \in {"loop", "delay", "await"} /\ pc' # "loop") => idx' = idx
             /\ (pc \in {"loop", "delay", "await"} /\ pc' = "loop") => idx' \in {idx, idx + 1}
             /\ \A i \in 1..Len(log) :
                    Settled(log[i]) => (Len(log') >= i /\ Settled(log'[i]))
             /\ SignalledBefore => (pc' = "delay" /\ timer' \in {60000, 1500})]_vars

\* C25: createAgent with an unregistered type throws and leaves the instance
\* registry unchanged; after a createAgent(type, id) that succeeds,
\* getAgent(id) returns the instance it created; removeAgent(id) returns
\* true exactly when id is registered, and then cleanup has been invoked on
\* the instance and getAgent(id) is undefined; otherwise it returns false
\* and leaves the registry unchanged.
C25_Registry ==
    [][/\ \A agentType \in AgentTypes, id \in AgentIds :
              CreateAgent(agentType, id) =>
                  IF agentType \in DOMAIN agentRegistry
                  THEN /\ ~factoryCall'.threw
                       /\ factoryCall'.agent = Len(agentObjects) + 1
                       /\ Len(agentObjects') = Len(agentObjects) + 1
                       /\ agentObjects'[factoryCall'.agent].id = id
                       /\ agentObjects'[factoryCall'.agent].class = agentRegistry[agentType]
                       /\ getAgent(agentInstances', id) = factoryCall'.agent
                  ELSE /\ factoryCall'.threw
                       /\ agentInstances' = agentInstances
                       /\ agentObjects' = agentObjects
       /\ \A id \in AgentIds :
              RemoveAgent(id) =>
                  IF id \in DOMAIN agentInstances
                  THEN /\ factoryCall'.removed
                       /\ agentObjects'[agentInstances[id]].cleanups
                       /\ getAgent(agentInstances', id) = 0
                       /\ \A other \in AgentIds \ {id} :
                              getAgent(agentInstances', other) =
                                  getAgent(agentInstances, other)
                  ELSE /\ ~factoryCall'.removed
                       /\ agentInstances' = agentInstances
                       /\ agentObjects' = agentObjects]_vars

C25_Witness ==
    /\ factoryCall.op = "removeAgent"
    /\ factoryCall.removed
    /\ Len(agentObjects) = 2
    /\ getAgent(agentInstances, "a1") = 0
    /\ getAgent(agentInstances, "a2") = 2
    /\ agentObjects[1].id = "a1"
    /\ agentObjects[1].cleanups
    /\ ~agentObjects[1].isInitialized

\* C26: every agent that was in the instance registry and no longer is has
\* had cleanup() invoked on it, createAgent with an id already in use
\* included.
C26_NoAgentDroppedWithoutCleanup ==
    \A k \in 1..Len(agentObjects) :
        k \notin getAllAgents(agentInstances) => agentObjects[k].cleanups

\* C27: generateSignals adds at most one entry per indicator (RSI, MACD):
\* buy, sell and hold together hold at most two entries, and the strength
\* returned is 'buy', 'sell' or 'neutral', never 'strong buy' or
\* 'strong sell'.
C27_NoStrongSignal ==
    signals.returned =>
        LET all == signals.buy \o signals.sell \o signals.hold
        IN  /\ Len(all) <= 2
            /\ \A k \in 1..Len(all) : all[k].indicator \in {"RSI", "MACD"}
            /\ \A name \in {"RSI", "MACD"} :
                   Cardinality({k \in 1..Len(all) : all[k].indicator = name}) <= 1
            /\ signals.strength \in {"buy", "sell", "neutral"}

C27_Witness ==
    /\ signals.returned
    /\ Len(signals.sell) = 2
    /\ signals.hold = <<>>
    /\ signals.strength = "sell"

\* C28: with store enabled, a fetch writes an archive file only if it goes
\* on to return points: a fetch that has failed has written no file (both
\* providers).
C28_ArchiveOnlyOnSuccess ==
    \A i \in 1..Len(log) :
        /\ log[i].write = "ok" => log[i].status = "ok"
        /\ log[i].status = "failed" => log[i].write # "ok"

\* C29: a provider constructed with store false or omitted, with or without
\* a storageDir, has created no directory at construction and writes no
\* archive file in any fetch of its batch.
C29_NoStoreNoFiles ==
    (ctor = "ok" /\ ~provider.store) =>
        /\ mkdirCalls = 0
        /\ Writing = {}
        /\ \A i \in 1..Len(log) : log[i].write = "none"

C29_Witness ==
    /\ ctor = "ok"
    /\ ~provider.store
    /\ provider.storageDir = "data"
    /\ pc = "done"
    /\ Len(log) = 2
    /\ log[2].status = "ok"
    /\ log[2].points # <<>>
    /\ mkdirCalls = 0

\* the titles of the articles the sources delivered, in source order: a
\* source whose request was rejected delivers none
RECURSIVE delivered(_)
delivered(responses) ==
    IF responses = <<>> THEN <<>>
    ELSE LET r == responses[Len(responses)]
         IN  delivered(SubSeq(responses, 1, Len(responses) - 1)) \o
             (IF r.response.rejects THEN <<>>
              ELSE [n \in 1..Len(r.response.articles) |-> r.response.articles[n].title])

\* C30: when execute returns, articleSentiments has one entry per article,
\* the directly supplied articles first and then the articles of each
\* source in source order; every source was requested once, and a source
\* whose fetch fails contributes no article and does not make execute
\* throw; overallSentiment is null exactly when articleSentiments is empty,
\* and otherwise its articleCount is the length of articleSentiments.
C30_ExecuteScoresAll ==
    /\ [](analysis.pc = "returned" =>
            LET f == analysis
            IN  /\ [n \in 1..Len(f.articleSentiments) |-> f.articleSentiments[n].title] =
                       [n \in 1..Len(f.articles.items) |-> f.articles.items[n].title] \o
                       delivered(f.responses)
                /\ [n \in 1..Len(f.responses) |-> f.responses[n].source] = f.sources.items
                /\ (f.overallSentiment = NoSentiment) <=> (f.articleSentiments = <<>>)
                /\ f.overallSentiment # NoSentiment =>
                       f.overallSentiment.articleCount = Len(f.articleSentiments))
    /\ [][\A resp \in SourceResponses :
             SourceSettles(resp) =>
                 /\ analysis'.pc # "threw"
                 /\ resp.rejects =>
                        /\ analysis'.fetched = analysis.fetched
                        /\ analysis'.articleSentiments = analysis.articleSentiments]_vars

C30_Witness ==
    /\ analysis.pc = "returned"
    /\ Len(analysis.articles.items) = 2
    /\ Len(analysis.responses) = 2
    /\ analysis.responses[1].response.rejects
    /\ Len(analysis.responses[2].response.articles) = 2
    /\ Len(analysis.articleSentiments) = 4
    /\ analysis.overallSentiment # NoSentiment
    /\ analysis.overallSentiment.articleCount = 4

====
